---- MODULE Spec2Model ----
(***************************************************************************)
(* A model of yuhuo-sync-db: the comparator, the SQL generator, the        *)
(* executor and the verifier, and the main pipeline that chains them.      *)
(*                                                                         *)
(* Go strings whose characters matter (column types, view definitions)     *)
(* are sequences of one-character strings.  A Go pointer or an optional    *)
(* value is a sequence of length 0 (nil) or 1.                             *)
(***************************************************************************)
EXTENDS Integers, Sequences, FiniteSets, TLC

VARIABLES
    source,          \* the source database
    target,          \* the target database
    syncDataTables,  \* cfg.SyncDataTables
    pc,              \* position of main
    diff,            \* result of CompareDifferences in main: <<>> (nil) or <<d>>
    sqls,            \* the statements returned by GenerateSQL
    results,         \* the ExecutionResult list built by ExecuteSQL
    execLog,         \* every call of Connection.Exec, in call order: [sql, ok]
    loggerLines,     \* the lines the logger wrote for the executor
    verify,          \* what VerifySync returned
    vdiff,           \* the Difference VerifySync obtained from the comparator
    target0,         \* the target database as it was when main started
    logLevel,        \* cfg.Logging.Level
    injected,        \* how many statements failed although the server could apply them
    answers,         \* what the user answered to ui.ConfirmContinue, in call order
    inp,             \* inputs of the pure-function specifications
    out              \* what the function under study returned for inp

vars == <<source, target, syncDataTables, pc, diff, sqls, results, execLog,
          loggerLines, verify, vdiff, target0, logLevel, injected, answers, inp, out>>

-----------------------------------------------------------------------------
(* Bounds of the model *)

\* primary-key values of the data rows are 1..MaxPk
MaxPk == 2
\* at most this many statements of one run fail in Connection.Exec
MaxExecFailures == 1

-----------------------------------------------------------------------------
(* Strings *)

LowerChars == <<"a","b","c","d","e","f","g","h","i","j","k","l","m",
                "n","o","p","q","r","s","t","u","v","w","x","y","z">>
UpperChars == <<"A","B","C","D","E","F","G","H","I","J","K","L","M",
                "N","O","P","Q","R","S","T","U","V","W","X","Y","Z">>

\* the upper-case letter of each lower-case letter, and the converse
UpperOf ==
    [c \in {LowerChars[i] : i \in DOMAIN LowerChars} |->
        UpperChars[CHOOSE i \in DOMAIN LowerChars : LowerChars[i] = c]]

LowerOf ==
    [c \in {UpperChars[i] : i \in DOMAIN UpperChars} |->
        LowerChars[CHOOSE i \in DOMAIN UpperChars : UpperChars[i] = c]]

ToUpperCh(c) == IF c \in DOMAIN UpperOf THEN UpperOf[c] ELSE c

ToLowerCh(c) == IF c \in DOMAIN LowerOf THEN LowerOf[c] ELSE c

\* strings.ToUpper
ToUpper(s) == [i \in 1..Len(s) |-> ToUpperCh(s[i])]

\* strings.ToLower
ToLower(s) == [i \in 1..Len(s) |-> ToLowerCh(s[i])]

\* unicode.IsSpace, on the characters the model uses
IsSpace(c) == c \in {" ", "\t", "\n", "\r"}

\* strings.Index for a one-character needle: 0-based, -1 when absent
IndexOf(s, c) ==
    IF \E i \in 1..Len(s) : s[i] = c
    THEN (CHOOSE i \in 1..Len(s) : s[i] = c /\ \A j \in 1..(i - 1) : s[j] # c) - 1
    ELSE -1

RECURSIVE TrimLeft(_)
TrimLeft(s) ==
    IF s # <<>> /\ IsSpace(Head(s)) THEN TrimLeft(Tail(s)) ELSE s

RECURSIVE TrimRight(_)
TrimRight(s) ==
    IF s # <<>> /\ IsSpace(s[Len(s)]) THEN TrimRight(SubSeq(s, 1, Len(s) - 1)) ELSE s

\* strings.TrimSpace
TrimSpace(s) == TrimRight(TrimLeft(s))

\* strings.Fields: the maximal runs of non-space characters
RECURSIVE FieldsFrom(_, _, _)
FieldsFrom(s, i, cur) ==
    IF i > Len(s)
    THEN IF cur = <<>> THEN <<>> ELSE <<cur>>
    ELSE IF IsSpace(s[i])
         THEN (IF cur = <<>> THEN <<>> ELSE <<cur>>) \o FieldsFrom(s, i + 1, <<>>)
         ELSE FieldsFrom(s, i + 1, Append(cur, s[i]))

Fields(s) == FieldsFrom(s, 1, <<>>)

\* strings.Join
RECURSIVE Join(_, _)
Join(words, sep) ==
    IF words = <<>> THEN <<>>
    ELSE IF Len(words) = 1 THEN words[1]
    ELSE words[1] \o sep \o Join(Tail(words), sep)

\* strings.Contains
Contains(s, sub) ==
    \E i \in 1..(Len(s) - Len(sub) + 1) : SubSeq(s, i, i + Len(sub) - 1) = sub

\* strings.ReplaceAll (old is not empty): non-overlapping, left to right
RECURSIVE ReplaceAll(_, _, _)
ReplaceAll(s, old, new) ==
    IF Len(s) < Len(old) THEN s
    ELSE IF SubSeq(s, 1, Len(old)) = old
         THEN new \o ReplaceAll(SubSeq(s, Len(old) + 1, Len(s)), old, new)
         ELSE <<Head(s)>> \o ReplaceAll(Tail(s), old, new)

-----------------------------------------------------------------------------
(* Sequence helpers *)

Range(s) == {s[i] : i \in DOMAIN s}

\* the permutations of a finite set, as sequences
Perms(S) ==
    {p \in [1..Cardinality(S) -> S] : \A i, j \in 1..Cardinality(S) : p[i] = p[j] => i = j}

\* the elements of the sequence ord that are in S, in ord's order
Ordered(ord, S) == SelectSeq(ord, LAMBDA x : x \in S)

RECURSIVE Flatten(_)
Flatten(ss) == IF ss = <<>> THEN <<>> ELSE Head(ss) \o Flatten(Tail(ss))

-----------------------------------------------------------------------------
(* comparator.go: the pure helpers *)

\* stripGroup, were the text after the group dropped with it
stripGroupAndRest(typeStr, idx, endIdx) ==
    IF idx > 0 /\ endIdx > idx THEN SubSeq(typeStr, 1, idx) ELSE typeStr

\* typeStr[:idx] + typeStr[endIdx+1:] when the condition of normalizeType holds
stripGroup(typeStr, idx, endIdx) ==
    IF idx > 0 /\ endIdx > idx
    THEN SubSeq(typeStr, 1, idx) \o SubSeq(typeStr, endIdx + 2, Len(typeStr))
    ELSE typeStr

\* normalizeType after the strings.ToUpper
normalizeUpper(typeStr) ==
    Join(Fields(TrimSpace(stripGroup(typeStr, IndexOf(typeStr, "("), IndexOf(typeStr, ")")))),
         <<" ">>)

normalizeType(typeStr) == normalizeUpper(ToUpper(typeStr))

columnsEqual(col1, col2) ==
    IF col1.Name # col2.Name THEN FALSE
    ELSE IF normalizeType(col1.Type) # normalizeType(col2.Type) THEN FALSE
    ELSE IF col1.IsNullable # col2.IsNullable THEN FALSE
    ELSE IF (col1.DefaultValue = <<>>) # (col2.DefaultValue = <<>>) THEN FALSE
    ELSE IF col1.DefaultValue # <<>> /\ col2.DefaultValue # <<>>
            /\ col1.DefaultValue[1] # col2.DefaultValue[1] THEN FALSE
    ELSE IF col1.IsAutoIncrement # col2.IsAutoIncrement THEN FALSE
    ELSE TRUE

\* the value a Go map built by "for _, x := range xs { m[x.Name] = x }" holds for name
MapByName(xs, name) ==
    xs[CHOOSE i \in DOMAIN xs : xs[i].Name = name /\ \A j \in DOMAIN xs : xs[j].Name = name => j <= i]

Names(xs) == {xs[i].Name : i \in DOMAIN xs}

\* modificationsOf, were the two snapshots taken the other way round
modificationsSwapped(changed, targetColumns) ==
    [i \in 1..Len(changed) |->
        [ColumnName |-> changed[i].Name,
         OldColumn |-> changed[i],
         NewColumn |-> MapByName(targetColumns, changed[i].Name)]]

\* the ColumnModifications of the changed source columns
modificationsOf(changed, targetColumns) ==
    [i \in 1..Len(changed) |->
        [ColumnName |-> changed[i].Name,
         OldColumn |-> MapByName(targetColumns, changed[i].Name),
         NewColumn |-> changed[i]]]

compareColumns(sourceColumns, targetColumns) ==
    [added |-> SelectSeq(sourceColumns, LAMBDA c : c.Name \notin Names(targetColumns)),
     deleted |-> LET gone == SelectSeq(targetColumns,
                                 LAMBDA c : c.Name \notin Names(sourceColumns))
                 IN  [i \in 1..Len(gone) |-> gone[i].Name],
     modifications |->
         modificationsOf(
             SelectSeq(sourceColumns,
                 LAMBDA c : c.Name \in Names(targetColumns)
                            /\ ~columnsEqual(c, MapByName(targetColumns, c.Name))),
             targetColumns)]

\* compareIndexes, were an index of both sides with another column list or kind
\* taken for an index to drop and to add
compareIndexesByContent(sourceIndexes, targetIndexes, ord) ==
    LET same(name) == /\ name \in Names(sourceIndexes) \cap Names(targetIndexes)
                      /\ MapByName(sourceIndexes, name) = MapByName(targetIndexes, name)
        addedNames == Ordered(ord, {n \in Names(sourceIndexes) : ~same(n)})
        deletedNames == Ordered(ord, {n \in Names(targetIndexes) : ~same(n)})
    IN  [added |-> [i \in 1..Len(addedNames) |-> MapByName(sourceIndexes, addedNames[i])],
         deleted |-> [i \in 1..Len(deletedNames) |-> MapByName(targetIndexes, deletedNames[i])]]

\* ord is the order in which the two range loops visit the keys of the index maps
compareIndexes(sourceIndexes, targetIndexes, ord) ==
    LET addedNames == Ordered(ord, Names(sourceIndexes) \ Names(targetIndexes))
        deletedNames == Ordered(ord, Names(targetIndexes) \ Names(sourceIndexes))
    IN  [added |-> [i \in 1..Len(addedNames) |-> MapByName(sourceIndexes, addedNames[i])],
         deleted |-> [i \in 1..Len(deletedNames) |-> MapByName(targetIndexes, deletedNames[i])]]

\* fmt.Sprintf("%v", val) of a row value
Sprintv(val) ==
    CASE val.t = "nil" -> "<nil>"
      [] val.t = "int" -> ToString(val.v)
      [] val.t = "bool" -> (IF val.v = 1 THEN "true" ELSE "false")
      [] OTHER -> val.v

\* rowsEqual, were the columns of one row alone left out of the comparison
rowsEqualLoose(row1, row2) ==
    \A key \in DOMAIN row1 \cap DOMAIN row2 : Sprintv(row1[key]) = Sprintv(row2[key])

rowsEqual(row1, row2) ==
    IF Cardinality(DOMAIN row1) # Cardinality(DOMAIN row2) THEN FALSE
    ELSE \A key \in DOMAIN row1 :
            key \in DOMAIN row2 /\ Sprintv(row1[key]) = Sprintv(row2[key])

RECURSIVE CollapseDoubleSpaces(_)
CollapseDoubleSpaces(def) ==
    IF Contains(def, <<" ", " ">>)
    THEN CollapseDoubleSpaces(ReplaceAll(def, <<" ", " ">>, <<" ">>))
    ELSE def

normalizeViewDefinition(def) ==
    ToLower(ReplaceAll(ReplaceAll(CollapseDoubleSpaces(TrimSpace(def)),
                                  <<"\n">>, <<" ">>),
                       <<"\t">>, <<" ">>))

-----------------------------------------------------------------------------
(* The databases.  A database is [tables, views]: tables maps a table name *)
(* to [cols, idxs, rows] and views maps a view name to its definition.     *)
(* cols are the table's INFORMATION_SCHEMA.COLUMNS rows in ordinal order,  *)
(* idxs maps an index name to [Columns, NonUnique], rows maps the value of *)
(* the column "id" to the row.                                             *)

\* ORDER BY TABLE_NAME / INDEX_NAME of the names the model uses
TableNames == <<"logs", "users">>
ViewNames == <<"v_a", "v_b">>
IndexNames == <<"idx_name", "PRIMARY">>

Nil == <<>>
Ptr(x) == <<x>>

IntV(n) == [t |-> "int", v |-> n]
StrV(s) == [t |-> "str", v |-> s]
NilV == [t |-> "nil", v |-> 0]

ISColumn(name, type, nullable, default, extra, key, charset, comment) ==
    [COLUMN_NAME |-> name, COLUMN_TYPE |-> type, IS_NULLABLE |-> nullable,
     COLUMN_DEFAULT |-> default, EXTRA |-> extra, COLUMN_KEY |-> key,
     CHARACTER_SET_NAME |-> charset, COLLATION_NAME |-> charset,
     COLUMN_COMMENT |-> comment]

HasTable(db, t) == t \in DOMAIN db.tables

ColumnNamesOf(db, t) == {db.tables[t].cols[i].COLUMN_NAME : i \in DOMAIN db.tables[t].cols}

-----------------------------------------------------------------------------
(* database.QueryHelper: every call returns [err, val].  A call fails when *)
(* the query itself fails (fail names the failing call, <<>> for none) or  *)
(* when MySQL rejects it (a table or column that does not exist).          *)

Call(side, op, arg) == <<side, op, arg>>

Ok(v) == [err |-> FALSE, val |-> v]
Failed == [err |-> TRUE, val |-> <<>>]

GetTables(db, side, fail) ==
    IF Call(side, "GetTables", "") = fail THEN Failed
    ELSE Ok(Ordered(TableNames, DOMAIN db.tables))

getColumns(db, tableName) ==
    LET rows == IF HasTable(db, tableName) THEN db.tables[tableName].cols ELSE <<>>
        pri == {i \in DOMAIN rows : rows[i].COLUMN_KEY = "PRI"}
    IN  [columns |-> [i \in 1..Len(rows) |->
                        [Name |-> rows[i].COLUMN_NAME,
                         Type |-> rows[i].COLUMN_TYPE,
                         IsNullable |-> (rows[i].IS_NULLABLE = "YES"),
                         DefaultValue |-> rows[i].COLUMN_DEFAULT,
                         IsAutoIncrement |-> (rows[i].EXTRA = "auto_increment"),
                         Charset |-> rows[i].CHARACTER_SET_NAME,
                         Collation |-> rows[i].COLLATION_NAME,
                         Extra |-> rows[i].EXTRA,
                         Comment |-> rows[i].COLUMN_COMMENT]],
         primaryKey |-> IF pri = {} THEN ""
                        ELSE rows[CHOOSE i \in pri : \A j \in pri : j <= i].COLUMN_NAME]

getIndexes(db, tableName) ==
    LET idxs == IF HasTable(db, tableName) THEN db.tables[tableName].idxs ELSE <<>>
        indexOrder == Ordered(IndexNames, DOMAIN idxs)
    IN  [i \in 1..Len(indexOrder) |->
            [Name |-> indexOrder[i],
             Type |-> IF indexOrder[i] = "PRIMARY" THEN "PRIMARY" ELSE "INDEX",
             Columns |-> idxs[indexOrder[i]].Columns]]

\* the TableDefinition built from what getColumns and getIndexes returned
TableDefinition(tableName, cols, indexes) ==
    [TableName |-> tableName,
     Columns |-> cols.columns,
     PrimaryKey |-> cols.primaryKey,
     Indexes |-> indexes]

GetTableDefinition(db, side, fail, tableName) ==
    IF Call(side, "GetTableDefinition", tableName) = fail THEN Failed
    ELSE Ok(TableDefinition(tableName, getColumns(db, tableName),
                            getIndexes(db, tableName)))

HasPrimaryKey(tableDef) == tableDef.PrimaryKey # ""

GetViews(db, side, fail) ==
    IF Call(side, "GetViews", "") = fail THEN Failed
    ELSE LET names == Ordered(ViewNames, DOMAIN db.views)
         IN  Ok([i \in 1..Len(names) |->
                    [ViewName |-> names[i], Definition |-> db.views[names[i]]]])

\* SELECT `pk` FROM `t`, collected into a map: the set of the values
GetPrimaryKeyValues(db, side, fail, tableName, primaryKeyColumn) ==
    IF primaryKeyColumn = "" THEN Failed
    ELSE IF Call(side, "GetPrimaryKeyValues", tableName) = fail THEN Failed
    ELSE IF ~HasTable(db, tableName) THEN Failed
    ELSE IF primaryKeyColumn \notin ColumnNamesOf(db, tableName) THEN Failed
    ELSE Ok({db.tables[tableName].rows[k][primaryKeyColumn].v :
                k \in DOMAIN db.tables[tableName].rows})

\* SELECT * FROM `t` WHERE `pk` = ?: the first row, nil (<<>>) when there is none
GetRowByPrimaryKey(db, side, fail, tableName, primaryKeyColumn, pkValue) ==
    IF Call(side, "GetRowByPrimaryKey", tableName) = fail THEN Failed
    ELSE IF ~HasTable(db, tableName) THEN Failed
    ELSE IF primaryKeyColumn \notin ColumnNamesOf(db, tableName) THEN Failed
    ELSE LET rows == db.tables[tableName].rows
             hit == {k \in DOMAIN rows : rows[k][primaryKeyColumn].v = pkValue}
         IN  IF hit = {} THEN Ok(<<>>)
             ELSE Ok(rows[CHOOSE k \in hit : \A j \in hit : k <= j])

\* SHOW CREATE TABLE `t`: the creation text of the table, as the server prints it
GetCreateTableSQL(db, side, fail, tableName) ==
    IF Call(side, "GetCreateTableSQL", tableName) = fail THEN Failed
    ELSE IF ~HasTable(db, tableName) THEN Failed
    ELSE Ok([kind |-> "SHOW CREATE TABLE", table |-> tableName,
             body |-> db.tables[tableName]])

-----------------------------------------------------------------------------
(* comparator.go: the comparison pass.  The loops return at the first      *)
(* failing provider call; the calls have no effect, so a loop fails iff    *)
(* the call of some iteration fails.  ord gives the order in which the     *)
(* range loops over Go maps visit their keys: ord.idx for index names,     *)
(* ord.pk for primary-key values.                                          *)

PkValues == 1..MaxPk

AnyErr(rs) == \E i \in DOMAIN rs : rs[i].err

Vals(rs) == [i \in 1..Len(rs) |-> rs[i].val]

\* the StructureDifference of a table the target does not have
newTableDifference(tableName, sourceDef) ==
    [TableName |-> tableName,
     IsNewTable |-> TRUE,
     TableDefinition |-> Ptr(sourceDef),
     ColumnsAdded |-> sourceDef.Columns,
     ColumnsDeleted |-> <<>>,
     ColumnsModified |-> <<>>,
     IndexesAdded |-> sourceDef.Indexes,
     IndexesDeleted |-> <<>>]

\* the StructureDifference of a table of both sides
tableDifference(tableName, colDiff, indexDiff) ==
    [TableName |-> tableName,
     IsNewTable |-> FALSE,
     TableDefinition |-> Nil,
     ColumnsAdded |-> colDiff.added,
     ColumnsDeleted |-> colDiff.deleted,
     ColumnsModified |-> colDiff.modifications,
     IndexesAdded |-> indexDiff.added,
     IndexesDeleted |-> indexDiff.deleted]

\* one iteration of the loop of compareTableStructures: sourceDef and targetDef are
\* what GetTableDefinition returned (targetDef is asked for only when inTarget)
structureDifferenceOf(tableName, inTarget, sourceDef, targetDef, ord) ==
    IF sourceDef.err THEN Failed
    ELSE IF ~inTarget THEN Ok(newTableDifference(tableName, sourceDef.val))
    ELSE IF targetDef.err THEN Failed
    ELSE Ok(tableDifference(tableName,
                compareColumns(sourceDef.val.Columns, targetDef.val.Columns),
                compareIndexes(sourceDef.val.Indexes, targetDef.val.Indexes, ord.idx)))

\* compareTableStructures, were its loop to run over the tables of the target too
compareTableStructuresBothSides(src, tgt, sourceTables, targetTables, ord, fail) ==
    LET tables == Ordered(TableNames, Range(sourceTables) \cup Range(targetTables))
        each == [i \in 1..Len(tables) |->
                    structureDifferenceOf(tables[i],
                        tables[i] \in Range(targetTables),
                        GetTableDefinition(src, "source", fail, tables[i]),
                        GetTableDefinition(tgt, "target", fail, tables[i]),
                        ord)]
    IN  IF AnyErr(each) THEN Failed ELSE Ok(Vals(each))

compareTableStructures(src, tgt, sourceTables, targetTables, ord, fail) ==
    LET each == [i \in 1..Len(sourceTables) |->
                    structureDifferenceOf(sourceTables[i],
                        sourceTables[i] \in Range(targetTables),
                        GetTableDefinition(src, "source", fail, sourceTables[i]),
                        GetTableDefinition(tgt, "target", fail, sourceTables[i]),
                        ord)]
    IN  IF AnyErr(each) THEN Failed ELSE Ok(Vals(each))

\* the loops of compareTableDataByPrimaryKey: sourceKeys and targetKeys are the keys
\* in the order the loops visit them, sourceRow[k] and targetRow[k] what
\* GetRowByPrimaryKey returns for the key k
classifyRows(tableName, primaryKeyColumn, sourceKeys, targetKeys, sourceRow, targetRow) ==
    LET inserted == SelectSeq(sourceKeys, LAMBDA pk : pk \notin Range(targetKeys))
        common == SelectSeq(sourceKeys, LAMBDA pk : pk \in Range(targetKeys))
        deleted == SelectSeq(targetKeys, LAMBDA pk : pk \notin Range(sourceKeys))
    IN  IF \E i \in DOMAIN sourceKeys : sourceRow[sourceKeys[i]].err THEN Failed
        ELSE IF \E i \in DOMAIN common : targetRow[common[i]].err THEN Failed
        ELSE IF \E i \in DOMAIN deleted : targetRow[deleted[i]].err THEN Failed
        ELSE Ok([TableName |-> tableName,
                 PrimaryKeyName |-> primaryKeyColumn,
                 RowsToInsert |-> [i \in 1..Len(inserted) |-> sourceRow[inserted[i]].val],
                 RowsToUpdate |->
                     LET updated == SelectSeq(common,
                                        LAMBDA pk : ~rowsEqual(sourceRow[pk].val,
                                                               targetRow[pk].val))
                     IN  [i \in 1..Len(updated) |->
                             [PrimaryKeyValue |-> updated[i],
                              OldValues |-> targetRow[updated[i]].val,
                              NewValues |-> sourceRow[updated[i]].val]],
                 RowsToDelete |-> [i \in 1..Len(deleted) |-> targetRow[deleted[i]].val]])

\* sourcePKValues and targetPKValues are what GetPrimaryKeyValues returned
compareKeys(src, tgt, tableName, primaryKeyColumn, ord, fail, sourcePKValues, targetPKValues) ==
    IF sourcePKValues.err THEN Failed
    ELSE IF targetPKValues.err THEN Failed
    ELSE classifyRows(tableName, primaryKeyColumn,
             Ordered(ord.pk, sourcePKValues.val),
             Ordered(ord.pk, targetPKValues.val),
             [pk \in sourcePKValues.val |->
                 GetRowByPrimaryKey(src, "source", fail, tableName, primaryKeyColumn, pk)],
             [pk \in targetPKValues.val |->
                 GetRowByPrimaryKey(tgt, "target", fail, tableName, primaryKeyColumn, pk)])

compareTableDataByPrimaryKey(src, tgt, tableName, primaryKeyColumn, ord, fail) ==
    compareKeys(src, tgt, tableName, primaryKeyColumn, ord, fail,
        GetPrimaryKeyValues(src, "source", fail, tableName, primaryKeyColumn),
        GetPrimaryKeyValues(tgt, "target", fail, tableName, primaryKeyColumn))

\* one iteration of the loop of compareTableData on a table of the sync list:
\* val is <<>> for a table without a primary key, else <<its DataDifference>>
tableDataOf(src, tgt, tableName, sourceDef, ord, fail) ==
    IF sourceDef.err THEN Failed
    ELSE IF ~HasPrimaryKey(sourceDef.val) THEN Ok(<<>>)
    ELSE LET dataDiff == compareTableDataByPrimaryKey(src, tgt, tableName,
                             sourceDef.val.PrimaryKey, ord, fail)
         IN  IF dataDiff.err THEN Failed ELSE Ok(<<dataDiff.val>>)

\* the map whose entries are the DataDifferences of the sequence, by table name
DataMap(entries) ==
    [t \in {entries[i].TableName : i \in DOMAIN entries} |->
        entries[CHOOSE i \in DOMAIN entries : entries[i].TableName = t]]

\* compareTableData, were it to compare the rows of every table of the source
compareTableDataAllTables(src, tgt, sourceTables, syncTables, ord, fail) ==
    LET each == [i \in 1..Len(sourceTables) |->
                    tableDataOf(src, tgt, sourceTables[i],
                                GetTableDefinition(src, "source", fail, sourceTables[i]),
                                ord, fail)]
    IN  IF AnyErr(each) THEN Failed ELSE Ok(DataMap(Flatten(Vals(each))))

compareTableData(src, tgt, sourceTables, syncTables, ord, fail) ==
    LET listed == SelectSeq(sourceTables, LAMBDA t : t \in Range(syncTables))
        each == [i \in 1..Len(listed) |->
                    tableDataOf(src, tgt, listed[i],
                                GetTableDefinition(src, "source", fail, listed[i]),
                                ord, fail)]
    IN  IF AnyErr(each) THEN Failed ELSE Ok(DataMap(Flatten(Vals(each))))

ViewNamesOf(views) == {views[i].ViewName : i \in DOMAIN views}

\* the loop of compareViews over the source views
sourceViewDifference(sourceView, targetViews) ==
    IF sourceView.ViewName \notin ViewNamesOf(targetViews)
    THEN <<[ViewName |-> sourceView.ViewName,
            Operation |-> "CREATE",
            OldDefinition |-> <<>>,
            NewDefinition |-> sourceView.Definition]>>
    ELSE LET targetView ==
                 targetViews[CHOOSE j \in DOMAIN targetViews :
                                 targetViews[j].ViewName = sourceView.ViewName]
         IN  IF normalizeViewDefinition(sourceView.Definition)
                   # normalizeViewDefinition(targetView.Definition)
             THEN <<[ViewName |-> sourceView.ViewName,
                     Operation |-> "MODIFY",
                     OldDefinition |-> targetView.Definition,
                     NewDefinition |-> sourceView.Definition]>>
             ELSE <<>>

\* the loop of compareViews over the target views
targetViewDifference(targetView, sourceViews) ==
    IF targetView.ViewName \notin ViewNamesOf(sourceViews)
    THEN <<[ViewName |-> targetView.ViewName,
            Operation |-> "DROP",
            OldDefinition |-> targetView.Definition,
            NewDefinition |-> <<>>]>>
    ELSE <<>>

\* sourceViews and targetViews are what GetViews returned
viewDifferences(sourceViews, targetViews) ==
    IF sourceViews.err THEN Failed
    ELSE IF targetViews.err THEN Failed
    ELSE Ok(Flatten([i \in 1..Len(sourceViews.val) |->
                        sourceViewDifference(sourceViews.val[i], targetViews.val)])
            \o Flatten([i \in 1..Len(targetViews.val) |->
                           targetViewDifference(targetViews.val[i], sourceViews.val)]))

compareViews(src, tgt, fail) ==
    viewDifferences(GetViews(src, "source", fail), GetViews(tgt, "target", fail))

\* compareAll, were a failure of compareViews to leave the difference without views
compareAllPartial(structDiffs, dataDiffs, viewDiffs) ==
    IF structDiffs.err THEN Failed
    ELSE IF dataDiffs.err THEN Failed
    ELSE Ok(Ptr([StructureDifferences |-> structDiffs.val,
                 DataDifferences |-> dataDiffs.val,
                 ViewDifferences |-> IF viewDiffs.err THEN <<>> ELSE viewDiffs.val]))

\* the three comparisons of CompareDifferences, in the order of the code
compareAll(structDiffs, dataDiffs, viewDiffs) ==
    IF structDiffs.err THEN Failed
    ELSE IF dataDiffs.err THEN Failed
    ELSE IF viewDiffs.err THEN Failed
    ELSE Ok(Ptr([StructureDifferences |-> structDiffs.val,
                 DataDifferences |-> dataDiffs.val,
                 ViewDifferences |-> viewDiffs.val]))

\* sourceTables and targetTables are what GetTables returned
compareTables(src, tgt, syncTables, ord, fail, sourceTables, targetTables) ==
    IF sourceTables.err THEN Failed
    ELSE IF targetTables.err THEN Failed
    ELSE compareAll(
             compareTableStructures(src, tgt, sourceTables.val, targetTables.val, ord, fail),
             compareTableData(src, tgt, sourceTables.val, syncTables, ord, fail),
             compareViews(src, tgt, fail))

\* returns [err, val]: val is <<>> (a nil *SyncDifference) or <<the difference>>
CompareDifferences(src, tgt, syncTables, ord, fail) ==
    compareTables(src, tgt, syncTables, ord, fail,
                  GetTables(src, "source", fail), GetTables(tgt, "target", fail))

\* models.SyncDifference.HasDifferences
HasDifferences(d) ==
    Len(d.StructureDifferences) > 0
        \/ Cardinality(DOMAIN d.DataDifferences) > 0
        \/ Len(d.ViewDifferences) > 0

-----------------------------------------------------------------------------
(* sqlgen.go.  A statement is [kind, table, body]: the record holds what   *)
(* the statement text says, no more (a column definition carries no        *)
(* comment because buildColumnDefinition writes none).                     *)

Stmt(kind, table, body) == [kind |-> kind, table |-> table, body |-> body]

\* a literal of a statement: q tells whether it is single-quoted
escapeValue(val) ==
    CASE val.t = "nil" -> [q |-> FALSE, s |-> "NULL"]
      [] val.t = "str" -> [q |-> TRUE, s |-> val.v]
      [] val.t = "int" -> [q |-> FALSE, s |-> ToString(val.v)]
      [] val.t = "bool" -> [q |-> FALSE, s |-> IF val.v = 1 THEN "1" ELSE "0"]
      [] OTHER -> [q |-> TRUE, s |-> Sprintv(val)]

\* Column.Length is never set by getColumns, so the length branch never runs
buildColumnDefinition(col) ==
    [Name |-> col.Name,
     Type |-> col.Type,
     Default |-> IF col.DefaultValue # <<>>
                 THEN Ptr(escapeValue(StrV(col.DefaultValue[1])))
                 ELSE Nil,
     NotNull |-> ~col.IsNullable,
     AutoIncrement |-> col.IsAutoIncrement,
     Charset |-> col.Charset,
     Collation |-> col.Collation]

\* The text is a list of items, each followed by ",\n" or "\n".  item is what
\* the item says, comma whether the generator wrote a comma after it.
generateCreateTableSQL(tableName, tableDef) ==
    LET nCols == Len(tableDef.Columns)
        nIdx == Len(tableDef.Indexes)
        colItems ==
            [i \in 1..nCols |->
                [item |-> "column",
                 comma |-> IF i < nCols THEN TRUE
                           ELSE tableDef.PrimaryKey # "" \/ nIdx > 0]]
        pkItems ==
            IF tableDef.PrimaryKey # ""
            THEN <<[item |-> "primary", comma |-> nIdx > 0]>>
            ELSE <<>>
        idxItems ==
            Flatten([i \in 1..nIdx |->
                        IF tableDef.Indexes[i].Type = "PRIMARY" THEN <<>>
                        ELSE <<[item |-> "index", comma |-> i < nIdx]>>])
        items == colItems \o pkItems \o idxItems
    IN  Stmt("CREATE TABLE", tableName,
             [cols |-> [i \in 1..nCols |-> buildColumnDefinition(tableDef.Columns[i])],
              pk |-> tableDef.PrimaryKey,
              idxs |-> SelectSeq(tableDef.Indexes, LAMBDA x : x.Type # "PRIMARY"),
              wellFormed |-> /\ items # <<>>
                             /\ \A i \in DOMAIN items : items[i].comma = (i < Len(items))])

generateAddIndexSQL(tableName, idx) ==
    CASE idx.Type = "PRIMARY" ->
            Stmt("ADD PRIMARY KEY", tableName, [name |-> "PRIMARY", cols |-> idx.Columns])
      [] idx.Type = "UNIQUE" ->
            Stmt("ADD UNIQUE KEY", tableName, [name |-> idx.Name, cols |-> idx.Columns])
      [] OTHER ->
            Stmt("ADD INDEX", tableName, [name |-> idx.Name, cols |-> idx.Columns])

\* generateStructureSQL, were the columns dropped before the new ones are added and
\* a modified column defined from the old snapshot
generateStructureSQLDropFirst(structDiff) ==
    LET tableName == structDiff.TableName
    IN  IF structDiff.IsNewTable /\ structDiff.TableDefinition # Nil
        THEN <<generateCreateTableSQL(tableName, structDiff.TableDefinition[1])>>
        ELSE [i \in 1..Len(structDiff.ColumnsDeleted) |->
                 Stmt("DROP COLUMN", tableName, structDiff.ColumnsDeleted[i])]
             \o [i \in 1..Len(structDiff.ColumnsAdded) |->
                 Stmt("ADD COLUMN", tableName,
                      buildColumnDefinition(structDiff.ColumnsAdded[i]))]
             \o [i \in 1..Len(structDiff.ColumnsModified) |->
                 Stmt("MODIFY COLUMN", tableName,
                      buildColumnDefinition(structDiff.ColumnsModified[i].OldColumn))]
             \o [i \in 1..Len(structDiff.IndexesDeleted) |->
                 IF structDiff.IndexesDeleted[i].Type = "PRIMARY"
                 THEN Stmt("DROP PRIMARY KEY", tableName, "PRIMARY")
                 ELSE Stmt("DROP INDEX", tableName, structDiff.IndexesDeleted[i].Name)]
             \o [i \in 1..Len(structDiff.IndexesAdded) |->
                 generateAddIndexSQL(tableName, structDiff.IndexesAdded[i])]

\* generateStructureSQL, were the creation of a new table not to end the function
generateStructureSQLNoReturn(structDiff) ==
    LET tableName == structDiff.TableName
    IN  (IF structDiff.IsNewTable /\ structDiff.TableDefinition # Nil
         THEN <<generateCreateTableSQL(tableName, structDiff.TableDefinition[1])>>
         ELSE <<>>)
        \o [i \in 1..Len(structDiff.ColumnsAdded) |->
               Stmt("ADD COLUMN", tableName,
                    buildColumnDefinition(structDiff.ColumnsAdded[i]))]
        \o [i \in 1..Len(structDiff.IndexesAdded) |->
               generateAddIndexSQL(tableName, structDiff.IndexesAdded[i])]

generateStructureSQL(structDiff) ==
    LET tableName == structDiff.TableName
    IN  IF structDiff.IsNewTable /\ structDiff.TableDefinition # Nil
        THEN <<generateCreateTableSQL(tableName, structDiff.TableDefinition[1])>>
        ELSE [i \in 1..Len(structDiff.ColumnsAdded) |->
                 Stmt("ADD COLUMN", tableName,
                      buildColumnDefinition(structDiff.ColumnsAdded[i]))]
             \o [i \in 1..Len(structDiff.ColumnsDeleted) |->
                 Stmt("DROP COLUMN", tableName, structDiff.ColumnsDeleted[i])]
             \o [i \in 1..Len(structDiff.ColumnsModified) |->
                 Stmt("MODIFY COLUMN", tableName,
                      buildColumnDefinition(structDiff.ColumnsModified[i].NewColumn))]
             \o [i \in 1..Len(structDiff.IndexesDeleted) |->
                 IF structDiff.IndexesDeleted[i].Type = "PRIMARY"
                 THEN Stmt("DROP PRIMARY KEY", tableName, "PRIMARY")
                 ELSE Stmt("DROP INDEX", tableName, structDiff.IndexesDeleted[i].Name)]
             \o [i \in 1..Len(structDiff.IndexesAdded) |->
                 generateAddIndexSQL(tableName, structDiff.IndexesAdded[i])]

generateInsertSQL(tableName, rows) ==
    [i \in 1..Len(rows) |->
        Stmt("INSERT", tableName,
             [c \in DOMAIN rows[i] |-> escapeValue(rows[i][c])])]

\* generateUpdateSQL, were the primary-key column assigned like the others
generateUpdateSQLAllColumns(tableName, pkColumn, updateRow) ==
    Stmt("UPDATE", tableName,
         [set |-> [c \in DOMAIN updateRow.NewValues |-> escapeValue(updateRow.NewValues[c])],
          pkColumn |-> pkColumn,
          pk |-> escapeValue(IntV(updateRow.PrimaryKeyValue))])

generateUpdateSQL(tableName, pkColumn, updateRow) ==
    Stmt("UPDATE", tableName,
         [set |-> [c \in DOMAIN updateRow.NewValues \ {pkColumn} |->
                      escapeValue(updateRow.NewValues[c])],
          pkColumn |-> pkColumn,
          pk |-> escapeValue(IntV(updateRow.PrimaryKeyValue))])

\* row[pkColumn] of a row without that column is nil
generateDeleteSQL(tableName, pkColumn, rows) ==
    [i \in 1..Len(rows) |->
        Stmt("DELETE", tableName,
             [pkColumn |-> pkColumn,
              pk |-> escapeValue(IF pkColumn \in DOMAIN rows[i]
                                 THEN rows[i][pkColumn] ELSE NilV)])]

\* generateDataSQL, were the rows deleted before the others are inserted and updated
generateDataSQLDeleteFirst(dataDiff) ==
    LET tableName == dataDiff.TableName
        pkColumn == dataDiff.PrimaryKeyName
    IN  (IF Len(dataDiff.RowsToDelete) > 0
         THEN generateDeleteSQL(tableName, pkColumn, dataDiff.RowsToDelete) ELSE <<>>)
        \o (IF Len(dataDiff.RowsToInsert) > 0
            THEN generateInsertSQL(tableName, dataDiff.RowsToInsert) ELSE <<>>)
        \o [i \in 1..Len(dataDiff.RowsToUpdate) |->
               generateUpdateSQL(tableName, pkColumn, dataDiff.RowsToUpdate[i])]

generateDataSQL(dataDiff) ==
    LET tableName == dataDiff.TableName
        pkColumn == dataDiff.PrimaryKeyName
    IN  (IF Len(dataDiff.RowsToInsert) > 0
         THEN generateInsertSQL(tableName, dataDiff.RowsToInsert) ELSE <<>>)
        \o [i \in 1..Len(dataDiff.RowsToUpdate) |->
               generateUpdateSQL(tableName, pkColumn, dataDiff.RowsToUpdate[i])]
        \o (IF Len(dataDiff.RowsToDelete) > 0
            THEN generateDeleteSQL(tableName, pkColumn, dataDiff.RowsToDelete) ELSE <<>>)

\* GenerateSQL, were the views created after the data statements
GenerateSQLViewsLast(d, tblOrd) ==
    LET drops == SelectSeq(d.ViewDifferences,
                     LAMBDA v : v.Operation = "DROP" \/ v.Operation = "MODIFY")
        creates == SelectSeq(d.ViewDifferences,
                       LAMBDA v : v.Operation = "CREATE" \/ v.Operation = "MODIFY")
        dataTables == Ordered(tblOrd, DOMAIN d.DataDifferences)
    IN  [i \in 1..Len(drops) |-> Stmt("DROP VIEW", drops[i].ViewName, <<>>)]
        \o Flatten([i \in 1..Len(d.StructureDifferences) |->
                       generateStructureSQL(d.StructureDifferences[i])])
        \o Flatten([i \in 1..Len(dataTables) |->
                       generateDataSQL(d.DataDifferences[dataTables[i]])])
        \o [i \in 1..Len(creates) |->
               Stmt("CREATE VIEW", creates[i].ViewName, creates[i].NewDefinition)]

\* GenerateSQL, were a modified view created without being dropped first
GenerateSQLModifyNotDropped(d, tblOrd) ==
    LET drops == SelectSeq(d.ViewDifferences, LAMBDA v : v.Operation = "DROP")
        creates == SelectSeq(d.ViewDifferences,
                       LAMBDA v : v.Operation = "CREATE" \/ v.Operation = "MODIFY")
        dataTables == Ordered(tblOrd, DOMAIN d.DataDifferences)
    IN  [i \in 1..Len(drops) |-> Stmt("DROP VIEW", drops[i].ViewName, <<>>)]
        \o Flatten([i \in 1..Len(d.StructureDifferences) |->
                       generateStructureSQL(d.StructureDifferences[i])])
        \o [i \in 1..Len(creates) |->
               Stmt("CREATE VIEW", creates[i].ViewName, creates[i].NewDefinition)]
        \o Flatten([i \in 1..Len(dataTables) |->
                       generateDataSQL(d.DataDifferences[dataTables[i]])])

\* tblOrd is the order in which the range loop visits the keys of DataDifferences
GenerateSQL(d, tblOrd) ==
    LET drops == SelectSeq(d.ViewDifferences,
                     LAMBDA v : v.Operation = "DROP" \/ v.Operation = "MODIFY")
        creates == SelectSeq(d.ViewDifferences,
                       LAMBDA v : v.Operation = "CREATE" \/ v.Operation = "MODIFY")
        dataTables == Ordered(tblOrd, DOMAIN d.DataDifferences)
    IN  [i \in 1..Len(drops) |-> Stmt("DROP VIEW", drops[i].ViewName, <<>>)]
        \o Flatten([i \in 1..Len(d.StructureDifferences) |->
                       generateStructureSQL(d.StructureDifferences[i])])
        \o [i \in 1..Len(creates) |->
               Stmt("CREATE VIEW", creates[i].ViewName, creates[i].NewDefinition)]
        \o Flatten([i \in 1..Len(dataTables) |->
                       generateDataSQL(d.DataDifferences[dataTables[i]])])

-----------------------------------------------------------------------------
(* Connection.Exec: what the MySQL server behind the connection does with  *)
(* a statement.  CanApply tells whether the server accepts the statement,  *)
(* Apply gives the database after it.                                      *)

\* COLUMN_KEY of a column, from the indexes of its table
ColumnKey(name, idxs) ==
    IF "PRIMARY" \in DOMAIN idxs /\ name \in Range(idxs["PRIMARY"].Columns) THEN "PRI"
    ELSE IF \E x \in DOMAIN idxs : idxs[x].Columns # <<>> /\ idxs[x].Columns[1] = name
         THEN IF \E x \in DOMAIN idxs :
                    idxs[x].Columns # <<>> /\ idxs[x].Columns[1] = name /\ ~idxs[x].NonUnique
              THEN "UNI" ELSE "MUL"
    ELSE ""

\* a table with the COLUMN_KEY of its columns brought in line with its indexes
Rekey(tbl) ==
    [tbl EXCEPT !.cols =
        [i \in 1..Len(tbl.cols) |->
            [tbl.cols[i] EXCEPT !.COLUMN_KEY = ColumnKey(tbl.cols[i].COLUMN_NAME, tbl.idxs)]]]

\* the INFORMATION_SCHEMA.COLUMNS row of a column created from a definition
ColumnOfDefinition(cd) ==
    [COLUMN_NAME |-> cd.Name,
     COLUMN_TYPE |-> cd.Type,
     IS_NULLABLE |-> IF cd.NotNull THEN "NO" ELSE "YES",
     COLUMN_DEFAULT |-> IF cd.Default = Nil THEN Nil ELSE Ptr(cd.Default[1].s),
     EXTRA |-> IF cd.AutoIncrement THEN "auto_increment" ELSE "",
     COLUMN_KEY |-> "",
     CHARACTER_SET_NAME |-> cd.Charset,
     COLLATION_NAME |-> cd.Collation,
     COLUMN_COMMENT |-> Ptr("")]

\* the value a literal denotes
ParseLiteral(lit) ==
    IF lit.q THEN StrV(lit.s)
    ELSE IF lit.s = "NULL" THEN NilV
    ELSE IntV(CHOOSE n \in 0..(MaxPk + 1) : ToString(n) = lit.s)

\* the value a row gets for a column it was given no value for
DefaultOf(col) ==
    IF col.COLUMN_DEFAULT = Nil THEN NilV ELSE StrV(col.COLUMN_DEFAULT[1])

SetTable(db, t, tbl) ==
    [db EXCEPT !.tables = [x \in DOMAIN db.tables \cup {t} |->
                              IF x = t THEN tbl ELSE db.tables[x]]]

Without(f, k) == [x \in DOMAIN f \ {k} |-> f[x]]

With(f, k, v) == [x \in DOMAIN f \cup {k} |-> IF x = k THEN v ELSE f[x]]

CanApply(db, stmt) ==
    LET t == stmt.table
        b == stmt.body
        has == HasTable(db, t)
        colNames == ColumnNamesOf(db, t)
    IN  CASE stmt.kind = "DROP VIEW" -> TRUE
          [] stmt.kind = "CREATE VIEW" -> t \notin DOMAIN db.views /\ ~has
          [] stmt.kind = "CREATE TABLE" ->
                ~has /\ t \notin DOMAIN db.views /\ b.wellFormed
                    /\ \A i \in DOMAIN b.cols :
                          b.cols[i].AutoIncrement =>
                              \/ b.cols[i].Name = b.pk
                              \/ \E j \in DOMAIN b.idxs :
                                    b.cols[i].Name \in Range(b.idxs[j].Columns)
          [] stmt.kind = "ADD COLUMN" ->
                has /\ b.Name \notin colNames /\ ~b.AutoIncrement
          [] stmt.kind = "DROP COLUMN" -> has /\ b \in colNames /\ colNames # {b}
          [] stmt.kind = "MODIFY COLUMN" ->
                has /\ b.Name \in colNames
                    /\ (b.AutoIncrement => ColumnKey(b.Name, db.tables[t].idxs) # "")
          [] stmt.kind \in {"DROP PRIMARY KEY", "DROP INDEX"} ->
                has /\ b \in DOMAIN db.tables[t].idxs
          [] stmt.kind \in {"ADD PRIMARY KEY", "ADD UNIQUE KEY", "ADD INDEX"} ->
                has /\ b.name \notin DOMAIN db.tables[t].idxs
                    /\ b.cols # <<>> /\ Range(b.cols) \subseteq colNames
          [] stmt.kind = "INSERT" ->
                has /\ DOMAIN b \subseteq colNames
                    /\ "id" \in DOMAIN b
                    /\ ParseLiteral(b["id"]).v \notin DOMAIN db.tables[t].rows
          [] stmt.kind = "UPDATE" ->
                has /\ DOMAIN b.set # {} /\ DOMAIN b.set \subseteq colNames
                    /\ b.pkColumn \in colNames
          [] stmt.kind = "DELETE" -> has /\ b.pkColumn \in colNames
          [] OTHER -> FALSE

Apply(db, stmt) ==
    LET t == stmt.table
        b == stmt.body
        tbl == db.tables[t]
        pos(name) == CHOOSE i \in DOMAIN tbl.cols : tbl.cols[i].COLUMN_NAME = name
    IN  CASE stmt.kind = "DROP VIEW" -> [db EXCEPT !.views = Without(db.views, t)]
          [] stmt.kind = "CREATE VIEW" -> [db EXCEPT !.views = With(db.views, t, b)]
          [] stmt.kind = "CREATE TABLE" ->
                SetTable(db, t,
                    Rekey([cols |-> [i \in 1..Len(b.cols) |-> ColumnOfDefinition(b.cols[i])],
                           idxs |-> [x \in {b.idxs[i].Name : i \in DOMAIN b.idxs}
                                            \cup (IF b.pk # "" THEN {"PRIMARY"} ELSE {}) |->
                                        IF x = "PRIMARY" /\ b.pk # ""
                                        THEN [Columns |-> <<b.pk>>, NonUnique |-> FALSE]
                                        ELSE [Columns |-> MapByName(b.idxs, x).Columns,
                                              NonUnique |-> MapByName(b.idxs, x).Type # "UNIQUE"]],
                           rows |-> <<>>]))
          [] stmt.kind = "ADD COLUMN" ->
                SetTable(db, t,
                    [tbl EXCEPT
                        !.cols = Append(tbl.cols, ColumnOfDefinition(b)),
                        !.rows = [k \in DOMAIN tbl.rows |->
                                     With(tbl.rows[k], b.Name,
                                          DefaultOf(ColumnOfDefinition(b)))]])
          [] stmt.kind = "DROP COLUMN" ->
                LET idxs == [x \in DOMAIN tbl.idxs |->
                                [tbl.idxs[x] EXCEPT
                                    !.Columns = SelectSeq(tbl.idxs[x].Columns,
                                                          LAMBDA c : c # b)]]
                    kept == {x \in DOMAIN idxs : idxs[x].Columns # <<>>}
                IN  SetTable(db, t,
                        Rekey([cols |-> SelectSeq(tbl.cols, LAMBDA c : c.COLUMN_NAME # b),
                               idxs |-> [x \in kept |-> idxs[x]],
                               rows |-> [k \in DOMAIN tbl.rows |-> Without(tbl.rows[k], b)]]))
          [] stmt.kind = "MODIFY COLUMN" ->
                SetTable(db, t,
                    Rekey([tbl EXCEPT !.cols[pos(b.Name)] = ColumnOfDefinition(b)]))
          [] stmt.kind \in {"DROP PRIMARY KEY", "DROP INDEX"} ->
                SetTable(db, t, Rekey([tbl EXCEPT !.idxs = Without(tbl.idxs, b)]))
          [] stmt.kind \in {"ADD PRIMARY KEY", "ADD UNIQUE KEY", "ADD INDEX"} ->
                SetTable(db, t,
                    Rekey([tbl EXCEPT
                        !.idxs = With(tbl.idxs, b.name,
                                      [Columns |-> b.cols,
                                       NonUnique |-> stmt.kind = "ADD INDEX"])]))
          [] stmt.kind = "INSERT" ->
                SetTable(db, t,
                    [tbl EXCEPT
                        !.rows = With(tbl.rows, ParseLiteral(b["id"]).v,
                                      [c \in ColumnNamesOf(db, t) |->
                                          IF c \in DOMAIN b THEN ParseLiteral(b[c])
                                          ELSE DefaultOf(tbl.cols[pos(c)])])])
          [] stmt.kind = "UPDATE" ->
                SetTable(db, t,
                    [tbl EXCEPT
                        !.rows = [k \in DOMAIN tbl.rows |->
                                     IF Sprintv(tbl.rows[k][b.pkColumn])
                                            = Sprintv(ParseLiteral(b.pk))
                                     THEN [c \in DOMAIN tbl.rows[k] |->
                                              IF c \in DOMAIN b.set
                                              THEN ParseLiteral(b.set[c])
                                              ELSE tbl.rows[k][c]]
                                     ELSE tbl.rows[k]]])
          [] stmt.kind = "DELETE" ->
                LET hit == {k \in DOMAIN tbl.rows :
                               Sprintv(tbl.rows[k][b.pkColumn]) = Sprintv(ParseLiteral(b.pk))}
                IN  SetTable(db, t,
                        [tbl EXCEPT !.rows = [k \in DOMAIN tbl.rows \ hit |-> tbl.rows[k]]])
          [] OTHER -> db

-----------------------------------------------------------------------------
(* The databases and configurations main is started with *)

TInt == <<"i", "n", "t", "(", "1", "1", ")">>
TVarchar == <<"v", "a", "r", "c", "h", "a", "r", "(", "5", "0", ")">>
TVarcharUpper == <<"V", "A", "R", "C", "H", "A", "R", "(", "2", "0", ")">>
TText == <<"t", "e", "x", "t">>

colId == ISColumn("id", TInt, "NO", Nil, "auto_increment", "", Nil, Ptr(""))
colIdPlain == ISColumn("id", TInt, "NO", Nil, "", "", Nil, Ptr(""))
colName == ISColumn("name", TVarchar, "YES", Nil, "", "", Ptr("utf8mb4"), Ptr(""))
colNameUpper == ISColumn("name", TVarcharUpper, "YES", Nil, "", "", Ptr("latin1"), Ptr(""))
colNameText == ISColumn("name", TText, "YES", Nil, "", "", Ptr("utf8mb4"), Ptr(""))
colAge == ISColumn("age", TInt, "YES", Ptr("0"), "", "", Nil, Ptr(""))
colMsg == ISColumn("msg", TText, "YES", Nil, "", "", Ptr("utf8mb4"), Ptr(""))

idxPrimary == [Columns |-> <<"id">>, NonUnique |-> FALSE]
idxName == [Columns |-> <<"name">>, NonUnique |-> TRUE]

\* a row of the table for the key id: name is the value of every text column
RowOf(cols, id, name) ==
    [c \in {cols[i].COLUMN_NAME : i \in DOMAIN cols} |->
        IF c = "id" THEN IntV(id)
        ELSE IF c = "age" THEN StrV("0")
        ELSE StrV(name)]

\* names maps the keys of the rows to the text of each row
Table(cols, idxs, names) ==
    Rekey([cols |-> cols, idxs |-> idxs,
           rows |-> [k \in DOMAIN names |-> RowOf(cols, k, names[k])]])

NoRows == <<>>
RowsBob == <<"Bob">>
RowsBobAnn == [k \in 1..MaxPk |-> IF k = 1 THEN "Bob" ELSE "Ann"]
RowsRobAnn == [k \in 1..MaxPk |-> IF k = 1 THEN "Rob" ELSE "Ann"]

FullIdx == [PRIMARY |-> idxPrimary, idx_name |-> idxName]
PkIdx == [PRIMARY |-> idxPrimary]

SourceUsers ==
    {Table(<<colId, colName>>, FullIdx, RowsBob),
     Table(<<colId, colName>>, FullIdx, RowsBobAnn)}

TargetUsers ==
    {Table(<<colId, colName>>, FullIdx, RowsBob),
     Table(<<colId, colNameUpper>>, FullIdx, RowsRobAnn),
     Table(<<colId, colNameText, colAge>>, PkIdx, RowsRobAnn),
     Table(<<colIdPlain>>, <<>>, NoRows)}

Logs == Table(<<colIdPlain, colMsg>>, <<>>, NoRows)

VSelect1 == <<"s", "e", "l", "e", "c", "t", " ", "1">>
VSelect1Loose == <<"S", "E", "L", "E", "C", "T", " ", " ", "1", " ">>
VSelect2 == <<"s", "e", "l", "e", "c", "t", " ", "2">>

SourceViews == {<<>>, [v_a |-> VSelect1]}
TargetViews == {<<>>, [v_a |-> VSelect1Loose], [v_a |-> VSelect2, v_b |-> VSelect1]}

\* the tables of a database: users (or none) and logs (or none)
TablesOf(users, logs) ==
    [t \in (IF users = <<>> THEN {} ELSE {"users"})
            \cup (IF logs = <<>> THEN {} ELSE {"logs"}) |->
        IF t = "users" THEN users[1] ELSE logs[1]]

SourceDBs ==
    {[tables |-> TablesOf(u, l), views |-> v] :
        u \in {<<>>} \cup {<<x>> : x \in SourceUsers},
        l \in {<<>>, <<Logs>>},
        v \in SourceViews}

TargetDBs ==
    {[tables |-> TablesOf(u, <<>>), views |-> v] :
        u \in {<<>>} \cup {<<x>> : x \in TargetUsers},
        v \in TargetViews}

\* logger.LogLevel
DEBUG == 0
INFO == 1
WARN == 2
ERROR == 3

\* NewLogger's switch on cfg.Logging.Level
NewLogger(level) ==
    CASE level = "DEBUG" -> DEBUG
      [] level = "WARN" -> WARN
      [] level = "ERROR" -> ERROR
      [] OTHER -> INFO

LogLevels == {"INFO", "ERROR"}

-----------------------------------------------------------------------------
(* The oracles of a comparison pass *)

NoFail == <<>>

\* the calls that may fail: the listings, and the calls about the table users
FailCalls ==
    {Call(side, op, "") : side \in {"source", "target"}, op \in {"GetTables", "GetViews"}}
    \cup {Call(side, op, "users") :
            side \in {"source", "target"},
            op \in {"GetTableDefinition", "GetPrimaryKeyValues", "GetRowByPrimaryKey"}}

Orders == [idx : Perms(Range(IndexNames)), pk : Perms(PkValues)]

-----------------------------------------------------------------------------
(* executor.go and verifier.go *)

\* executeSingleSQL, given whether Connection.Exec succeeded
executeSingleSQL(sql, ok) ==
    IF ok
    THEN [SQL |-> sql, Success |-> TRUE, Error |-> Nil, Message |-> "Success"]
    ELSE [SQL |-> sql, Success |-> FALSE, Error |-> Ptr("exec error"),
          Message |-> "Error: exec error"]

\* Logger.Info and Logger.Error: the lines after the call
LoggerInfo(lines, level, message) ==
    IF level <= INFO THEN Append(lines, <<"INFO", message>>) ELSE lines

LoggerError(lines, level, message) ==
    IF level <= ERROR THEN Append(lines, <<"ERROR", message>>) ELSE lines

\* the logging of one iteration of ExecuteSQL
LogResult(lines, level, result) ==
    IF result.Success
    THEN LoggerInfo(lines, level, "SQL executed successfully")
    ELSE LoggerError(lines, level, "SQL execution failed")

\* GetSummary, were every result counted as a success
GetSummaryCountsAll(rs) ==
    [total |-> Len(rs),
     success |-> Len(rs),
     failed |-> Len(SelectSeq(rs, LAMBDA r : ~r.Success))]

GetSummary(rs) ==
    [total |-> Len(rs),
     success |-> Len(SelectSeq(rs, LAMBDA r : r.Success)),
     failed |-> Len(SelectSeq(rs, LAMBDA r : ~r.Success))]

GetFailedResults(rs) == SelectSeq(rs, LAMBDA r : ~r.Success)

\* VerifySync, were it to look at the structure differences alone
VerifySyncStructureOnly(cmp) ==
    IF cmp.err
    THEN [passed |-> FALSE, message |-> "", counts |-> <<>>, err |-> TRUE]
    ELSE IF Len(cmp.val[1].StructureDifferences) = 0
    THEN [passed |-> TRUE, message |-> "Sync verification passed! No differences found.",
          counts |-> <<>>, err |-> FALSE]
    ELSE [passed |-> FALSE,
          message |-> "Sync verification failed! Still have differences:",
          counts |-> <<Len(cmp.val[1].StructureDifferences),
                       Cardinality(DOMAIN cmp.val[1].DataDifferences),
                       Len(cmp.val[1].ViewDifferences)>>,
          err |-> FALSE]

\* VerifySync, given what the comparator returned
VerifySync(cmp) ==
    IF cmp.err
    THEN [passed |-> FALSE, message |-> "", counts |-> <<>>, err |-> TRUE]
    ELSE IF ~HasDifferences(cmp.val[1])
    THEN [passed |-> TRUE, message |-> "Sync verification passed! No differences found.",
          counts |-> <<>>, err |-> FALSE]
    ELSE [passed |-> FALSE,
          message |-> "Sync verification failed! Still have differences:",
          counts |-> <<Len(cmp.val[1].StructureDifferences),
                       Cardinality(DOMAIN cmp.val[1].DataDifferences),
                       Len(cmp.val[1].ViewDifferences)>>,
          err |-> FALSE]

-----------------------------------------------------------------------------
(* main *)

NoVerify == [passed |-> FALSE, message |-> "", counts |-> <<>>, err |-> FALSE]

Init ==
    /\ source \in SourceDBs
    /\ target \in TargetDBs
    /\ syncDataTables \in {<<>>, <<"users">>}
    /\ logLevel \in {NewLogger(l) : l \in LogLevels}
    /\ pc = "compare"
    /\ diff = Nil
    /\ sqls = <<>>
    /\ results = <<>>
    /\ execLog = <<>>
    /\ loggerLines = <<>>
    /\ verify = NoVerify
    /\ vdiff = Nil
    /\ target0 = target
    /\ injected = 0
    /\ answers = <<>>
    /\ inp = <<>>
    /\ out = <<>>

\* the order oracle of a pass that fails does not matter: no difference is returned
AnyOrder == CHOOSE ord \in Orders : TRUE

\* Step 1: CompareDifferences returns a difference; main exits when it is empty
CompareOk ==
    /\ pc = "compare"
    /\ \E ord \in Orders :
         LET cmp == CompareDifferences(source, target, syncDataTables, ord, NoFail)
         IN  /\ ~cmp.err
             /\ diff' = cmp.val
             /\ pc' = IF ~HasDifferences(cmp.val[1]) THEN "nodiff" ELSE "confirm1"
    /\ UNCHANGED <<answers, source, target, syncDataTables, sqls, results, execLog, loggerLines,
                   verify, vdiff, target0, logLevel, injected, inp, out>>

\* Step 1: a provider call fails (the query fails, or MySQL rejects it): os.Exit(1)
CompareFail ==
    /\ pc = "compare"
    /\ \E fail \in FailCalls \cup {NoFail} :
         LET cmp == CompareDifferences(source, target, syncDataTables, AnyOrder, fail)
         IN  /\ cmp.err
             /\ diff' = cmp.val
             /\ pc' = "exit1"
    /\ UNCHANGED <<answers, source, target, syncDataTables, sqls, results, execLog, loggerLines,
                   verify, vdiff, target0, logLevel, injected, inp, out>>

\* ui.ConfirmContinue("Do you want to continue with the sync?")
ConfirmSync ==
    /\ pc = "confirm1"
    /\ \E answer \in BOOLEAN :
         /\ answers' = Append(answers, answer)
         /\ pc' = IF answer THEN "generate" ELSE "cancelled"
    /\ UNCHANGED <<source, target, syncDataTables, diff, sqls, results, execLog,
                   loggerLines, verify, vdiff, target0, logLevel, injected, inp, out>>

\* Step 2: GenerateSQL (it never returns an error)
Generate ==
    /\ pc = "generate"
    /\ \E tblOrd \in Perms(Range(TableNames)) : sqls' = GenerateSQL(diff[1], tblOrd)
    /\ pc' = "confirm2"
    /\ UNCHANGED <<answers, source, target, syncDataTables, diff, results, execLog, loggerLines,
                   verify, vdiff, target0, logLevel, injected, inp, out>>

\* ConfirmExecute, were main to go on whatever the answer
ConfirmExecuteIgnored ==
    /\ pc = "confirm2"
    /\ \E answer \in BOOLEAN :
         /\ answers' = Append(answers, answer)
         /\ pc' = "execute"
    /\ UNCHANGED <<source, target, syncDataTables, diff, sqls, results, execLog,
                   loggerLines, verify, vdiff, target0, logLevel, injected, inp, out>>

\* ui.ConfirmContinue("Do you want to execute these SQL statements?")
ConfirmExecute ==
    /\ pc = "confirm2"
    /\ \E answer \in BOOLEAN :
         /\ answers' = Append(answers, answer)
         /\ pc' = IF answer THEN "execute" ELSE "cancelled"
    /\ UNCHANGED <<source, target, syncDataTables, diff, sqls, results, execLog,
                   loggerLines, verify, vdiff, target0, logLevel, injected, inp, out>>

\* ExecuteOk, were the executor built on the source connection
ExecuteOkOnSource ==
    /\ pc = "execute"
    /\ Len(results) < Len(sqls)
    /\ LET sql == sqls[Len(results) + 1]
           result == executeSingleSQL(sql, TRUE)
       IN  /\ CanApply(source, sql)
           /\ source' = Apply(source, sql)
           /\ execLog' = Append(execLog, [sql |-> sql, ok |-> TRUE])
           /\ results' = Append(results, result)
           /\ loggerLines' = LogResult(loggerLines, logLevel, result)
    /\ UNCHANGED <<answers, target, syncDataTables, pc, diff, sqls, verify, vdiff, target0,
                   logLevel, injected, inp, out>>

\* one iteration of the loop of ExecuteSQL on a statement the server applies
ExecuteOk ==
    /\ pc = "execute"
    /\ Len(results) < Len(sqls)
    /\ LET sql == sqls[Len(results) + 1]
           result == executeSingleSQL(sql, TRUE)
       IN  /\ CanApply(target, sql)
           /\ target' = Apply(target, sql)
           /\ execLog' = Append(execLog, [sql |-> sql, ok |-> TRUE])
           /\ results' = Append(results, result)
           /\ loggerLines' = LogResult(loggerLines, logLevel, result)
    /\ UNCHANGED <<answers, source, syncDataTables, pc, diff, sqls, verify, vdiff, target0,
                   logLevel, injected, inp, out>>

\* ExecuteFail, were the loop to end at the first statement that fails
ExecuteFailAborts ==
    /\ pc = "execute"
    /\ Len(results) < Len(sqls)
    /\ LET sql == sqls[Len(results) + 1]
           result == executeSingleSQL(sql, FALSE)
       IN  /\ \/ ~CanApply(target, sql) /\ injected' = injected
              \/ CanApply(target, sql) /\ injected < MaxExecFailures
                    /\ injected' = injected + 1
           /\ execLog' = Append(execLog, [sql |-> sql, ok |-> FALSE])
           /\ results' = Append(results, result)
           /\ loggerLines' = LogResult(loggerLines, logLevel, result)
    /\ pc' = "verify"
    /\ UNCHANGED <<answers, source, target, syncDataTables, diff, sqls, verify, vdiff,
                   target0, logLevel, inp, out>>

\* one iteration of the loop of ExecuteSQL on a statement that fails: the server
\* rejects it, or (at most MaxExecFailures times) it fails for another reason
ExecuteFail ==
    /\ pc = "execute"
    /\ Len(results) < Len(sqls)
    /\ LET sql == sqls[Len(results) + 1]
           result == executeSingleSQL(sql, FALSE)
       IN  /\ \/ ~CanApply(target, sql) /\ injected' = injected
              \/ CanApply(target, sql) /\ injected < MaxExecFailures
                    /\ injected' = injected + 1
           /\ execLog' = Append(execLog, [sql |-> sql, ok |-> FALSE])
           /\ results' = Append(results, result)
           /\ loggerLines' = LogResult(loggerLines, logLevel, result)
    /\ UNCHANGED <<answers, source, target, syncDataTables, pc, diff, sqls, verify, vdiff,
                   target0, logLevel, inp, out>>

\* ExecuteDone, were main to exit when a statement failed
ExecuteDoneExitsOnFailure ==
    /\ pc = "execute"
    /\ Len(results) = Len(sqls)
    /\ pc' = IF GetSummary(results).failed > 0 THEN "exit1" ELSE "verify"
    /\ UNCHANGED <<answers, source, target, syncDataTables, diff, sqls, results, execLog,
                   loggerLines, verify, vdiff, target0, logLevel, injected, inp, out>>

\* ExecuteSQL returns; main goes on to the verification
ExecuteDone ==
    /\ pc = "execute"
    /\ Len(results) = Len(sqls)
    /\ pc' = "verify"
    /\ UNCHANGED <<answers, source, target, syncDataTables, diff, sqls, results, execLog,
                   loggerLines, verify, vdiff, target0, logLevel, injected, inp, out>>

\* Step 4: VerifySync, the comparison pass succeeding
VerifyOk ==
    /\ pc = "verify"
    /\ \E ord \in Orders :
         LET cmp == CompareDifferences(source, target, syncDataTables, ord, NoFail)
         IN  /\ ~cmp.err
             /\ vdiff' = cmp.val
             /\ verify' = VerifySync(cmp)
             /\ pc' = "done"
    /\ UNCHANGED <<answers, source, target, syncDataTables, diff, sqls, results, execLog,
                   loggerLines, target0, logLevel, injected, inp, out>>

\* Step 4: VerifySync, a provider call failing: os.Exit(1)
VerifyFail ==
    /\ pc = "verify"
    /\ \E fail \in FailCalls \cup {NoFail} :
         LET cmp == CompareDifferences(source, target, syncDataTables, AnyOrder, fail)
         IN  /\ cmp.err
             /\ vdiff' = cmp.val
             /\ verify' = VerifySync(cmp)
             /\ pc' = "exit1"
    /\ UNCHANGED <<answers, source, target, syncDataTables, diff, sqls, results, execLog,
                   loggerLines, target0, logLevel, injected, inp, out>>

Next ==
    \/ CompareOk
    \/ CompareFail
    \/ ConfirmSync
    \/ Generate
    \/ ConfirmExecute
    \/ ExecuteOk
    \/ ExecuteFail
    \/ ExecuteDone
    \/ VerifyOk
    \/ VerifyFail

Spec == Init /\ [][Next]_vars

\* Once main has called ExecuteSQL it goes on without waiting for anyone: the
\* loop of ExecuteSQL ranges over a finite list and every call of Exec returns,
\* and VerifySync returns.  The second condition is WF_vars(VerifyOk \/ VerifyFail)
\* with its enabling condition written out: a step of VerifySync is possible
\* exactly when pc = "verify", and no other step leaves that position.
FairSpec ==
    /\ Spec
    /\ WF_vars(ExecuteOk \/ ExecuteFail \/ ExecuteDone)
    /\ []<>(pc # "verify")

-----------------------------------------------------------------------------
(* Properties of the pipeline, checked under Spec *)

\* every result of the run reports success
AllSucceeded == \A i \in DOMAIN results : results[i].Success

\* C1: round trip.  When main has compared, generated at least one statement,
\* executed all of them with every statement succeeding, and verified, VerifySync
\* returned passed = true with the "No differences found" message.
C1_RoundTrip ==
    (pc = "done" /\ Len(sqls) > 0 /\ Len(results) = Len(sqls) /\ AllSucceeded)
        => /\ verify.passed
           /\ verify.message = "Sync verification passed! No differences found."

\* the database after the logged calls of Connection.Exec, from the database db
RECURSIVE Replay(_, _)
Replay(db, log) ==
    IF log = <<>> THEN db
    ELSE Replay(IF Head(log).ok THEN Apply(db, Head(log).sql) ELSE db, Tail(log))

\* C2: ExecuteSQL hands the statements to Connection.Exec once each and in list
\* order (the calls made so far are a prefix of the list), goes on after a failure
\* (when it has returned there are as many results as statements), result i carries
\* statement i and has Success = false and a non-nil Error exactly when the call for
\* statement i failed, and the target is what the successful calls made of it: no
\* statement is retried and none is rolled back.
C2_ExecuteAll ==
    /\ Len(execLog) <= Len(sqls)
    /\ Len(results) = Len(execLog)
    /\ \A i \in DOMAIN results :
          /\ execLog[i].sql = sqls[i]
          /\ results[i].SQL = sqls[i]
          /\ results[i].Success = execLog[i].ok
          /\ (results[i].Error # Nil) = ~execLog[i].ok
    /\ pc \in {"verify", "done"} => Len(results) = Len(sqls)
    /\ target = Replay(target0, execLog)

\* a run in which a statement failed and a later one was applied
C2_Witness ==
    /\ pc = "verify"
    /\ \E i, j \in DOMAIN results :
          i < j /\ ~results[i].Success /\ results[j].Success
    /\ target # target0

\* C3: VerifySync returns passed = true exactly when the three collections of the
\* difference of its comparison pass are empty, with the "No differences found"
\* message; else passed = false and a message carrying the three counts; and when
\* its comparison pass fails it returns an error with passed = false.
C3_VerifyVerdict ==
    /\ pc = "done" =>
          /\ ~verify.err
          /\ vdiff # Nil
          /\ verify.passed <=>
                /\ vdiff[1].StructureDifferences = <<>>
                /\ DOMAIN vdiff[1].DataDifferences = {}
                /\ vdiff[1].ViewDifferences = <<>>
          /\ verify.passed =>
                verify.message = "Sync verification passed! No differences found."
          /\ ~verify.passed =>
                /\ verify.message = "Sync verification failed! Still have differences:"
                /\ verify.counts = <<Len(vdiff[1].StructureDifferences),
                                     Cardinality(DOMAIN vdiff[1].DataDifferences),
                                     Len(vdiff[1].ViewDifferences)>>
    /\ (pc = "exit1" /\ diff # Nil) => verify.err /\ ~verify.passed /\ vdiff = Nil

\* a run whose statements were executed and whose verification passed
C3_Witness == pc = "done" /\ verify.passed /\ Len(results) > 0

StructuralKinds ==
    {"CREATE TABLE", "ADD COLUMN", "DROP COLUMN", "MODIFY COLUMN", "DROP PRIMARY KEY",
     "DROP INDEX", "ADD PRIMARY KEY", "ADD UNIQUE KEY", "ADD INDEX"}

DataKinds == {"INSERT", "UPDATE", "DELETE"}

\* the phase of a statement: drop views, structure, create views, data
PhaseOf(stmt) ==
    CASE stmt.kind = "DROP VIEW" -> "drop view"
      [] stmt.kind \in StructuralKinds -> "structure"
      [] stmt.kind = "CREATE VIEW" -> "create view"
      [] stmt.kind \in DataKinds -> "data"
      [] OTHER -> "unknown"

PhaseOrder == <<"drop view", "structure", "create view", "data">>

PhaseBefore(a, b) ==
    \E i, j \in DOMAIN PhaseOrder : i < j /\ PhaseOrder[i] = a /\ PhaseOrder[j] = b

\* C4: in the list GenerateSQL returned every statement is a DROP VIEW, a
\* structural statement, a CREATE VIEW or a data statement, and no statement comes
\* after a statement of a later phase.
C4_StatementOrder ==
    \A i, j \in DOMAIN sqls :
        /\ PhaseOf(sqls[i]) # "unknown"
        /\ i < j => ~PhaseBefore(PhaseOf(sqls[j]), PhaseOf(sqls[i]))

\* a generated list with statements of the four phases
C4_Witness ==
    /\ pc = "confirm2"
    /\ \A k \in DOMAIN PhaseOrder :
          \E i \in DOMAIN sqls : PhaseOf(sqls[i]) = PhaseOrder[k]

\* C5: idempotence.  The difference main's comparison pass returned is the
\* difference every other pass over the same source, target and sync list returns,
\* the order of the elements of its lists included.
C5_Idempotent ==
    pc \in {"nodiff", "confirm1"} =>
        \A ord \in Orders :
            CompareDifferences(source, target, syncDataTables, ord, NoFail).val = diff

\* whether a comparison pass over the two databases makes the call
Made(src, tgt, syncTables, call) ==
    LET side == call[1]
        op == call[2]
        t == call[3]
        listed == HasTable(src, t) /\ t \in Range(syncTables)
        keyed == listed /\ \E i \in DOMAIN src.tables[t].cols :
                               src.tables[t].cols[i].COLUMN_KEY = "PRI"
    IN  CASE op \in {"GetTables", "GetViews"} -> TRUE
          [] op = "GetTableDefinition" ->
                HasTable(src, t) /\ (side = "target" => HasTable(tgt, t))
          [] op = "GetPrimaryKeyValues" -> keyed
          [] op = "GetRowByPrimaryKey" ->
                /\ keyed
                /\ IF side = "source" THEN src.tables[t].rows # <<>>
                   ELSE HasTable(tgt, t) /\ tgt.tables[t].rows # <<>>
          [] OTHER -> FALSE

\* C6: a comparison pass in which a provider call fails returns an error, and a
\* pass that returns an error returns no difference (nil); when main stopped on
\* the failure of its first pass, it had got no difference.
C6_NoPartialDifference ==
    /\ pc = "compare" =>
          \A fail \in FailCalls : \A ord \in Orders :
              /\ CompareDifferences(source, target, syncDataTables, ord, fail).err
                    => CompareDifferences(source, target, syncDataTables, ord, fail).val = Nil
              /\ Made(source, target, syncDataTables, fail)
                    => CompareDifferences(source, target, syncDataTables, ord, fail).err
    /\ (pc = "exit1" /\ ~verify.err) => diff = Nil

\* main has stopped on a failed comparison pass over databases with a table to
\* compare the data of
C6_Witness ==
    /\ pc = "exit1"
    /\ ~verify.err
    /\ Made(source, target, syncDataTables, Call("target", "GetRowByPrimaryKey", "users"))

\* the tables a difference (nil or not) is about
TablesIn(d) ==
    IF d = Nil THEN {}
    ELSE {d[1].StructureDifferences[i].TableName : i \in DOMAIN d[1].StructureDifferences}
         \cup DOMAIN d[1].DataDifferences

\* C15: a table of the target that the source lacks is in no difference (neither
\* the one main obtains nor the one VerifySync obtains); no generated and no
\* executed statement drops a table, every statement about a table is about a table
\* of the source, and every table the target had at the start is still there.
C15_NoTableDropped ==
    /\ TablesIn(diff) \subseteq DOMAIN source.tables
    /\ TablesIn(vdiff) \subseteq DOMAIN source.tables
    /\ \A i \in DOMAIN sqls :
         /\ sqls[i].kind # "DROP TABLE"
         /\ sqls[i].kind \in StructuralKinds \cup DataKinds =>
               sqls[i].table \in DOMAIN source.tables
    /\ \A i \in DOMAIN execLog : execLog[i].sql.kind # "DROP TABLE"
    /\ DOMAIN target0.tables \subseteq DOMAIN target.tables

\* a run that executed statements has ended, and the target still has the table
\* users, which the source lacks
C15_Witness ==
    /\ pc = "done"
    /\ Len(execLog) > 0
    /\ ~HasTable(source, "users")
    /\ HasTable(target0, "users")
    /\ HasTable(target, "users")

-----------------------------------------------------------------------------
(* compareTableDataByPrimaryKey on its own: SpecData.  source and target   *)
(* hold a table users each, with the primary key id; the pass compares its *)
(* rows.                                                                   *)

EmptyDB == [tables |-> <<>>, views |-> <<>>]

\* what a table holds under a key: no row, or a row with this name
NameValues == [none |-> NilV, Bob |-> StrV("Bob"), null |-> NilV, nil |-> StrV("<nil>")]

Contents == [PkValues -> DOMAIN NameValues]

\* the database whose table users has the columns cols and the rows of contents
DataDB(cols, contents) ==
    [tables |->
        [users |->
            Rekey([cols |-> cols,
                   idxs |-> PkIdx,
                   rows |-> [k \in {x \in PkValues : contents[x] # "none"} |->
                                [c \in {cols[i].COLUMN_NAME : i \in DOMAIN cols} |->
                                    IF c = "id" THEN IntV(k)
                                    ELSE IF c = "age" THEN StrV("0")
                                    ELSE NameValues[contents[k]]]]])],
     views |-> <<>>]

InitData ==
    /\ source \in {DataDB(<<colId, colName>>, f) : f \in Contents}
    /\ target \in {DataDB(cols, f) :
                      cols \in {<<colId, colName>>, <<colId, colName, colAge>>},
                      f \in Contents}
    /\ syncDataTables = <<"users">>
    /\ logLevel = INFO
    /\ pc = "call"
    /\ diff = Nil
    /\ sqls = <<>>
    /\ results = <<>>
    /\ execLog = <<>>
    /\ loggerLines = <<>>
    /\ verify = NoVerify
    /\ vdiff = Nil
    /\ target0 = target
    /\ injected = 0
    /\ answers = <<>>
    /\ inp = <<>>
    /\ out = <<>>

\* compareTableDataByPrimaryKey("users", "id"), every provider call succeeding
CompareTableRows ==
    /\ pc = "call"
    /\ \E ord \in Orders :
          out' = compareTableDataByPrimaryKey(source, target, "users", "id", ord, NoFail)
    /\ pc' = "returned"
    /\ UNCHANGED <<answers, source, target, syncDataTables, diff, sqls, results, execLog,
                   loggerLines, verify, vdiff, target0, logLevel, injected, inp>>

NextData == CompareTableRows

SpecData == InitData /\ [][NextData]_vars

\* the row-equality rule: the same columns, and the same text for every value
SameRow(a, b) ==
    DOMAIN a = DOMAIN b /\ \A c \in DOMAIN a : Sprintv(a[c]) = Sprintv(b[c])

\* the sequence lists every element of the set once
Lists(seq, set) == Len(seq) = Cardinality(set) /\ Range(seq) = set

\* C7: the row classification.  RowsToInsert lists the source rows whose key the
\* target lacks, RowsToDelete the target rows whose key the source lacks,
\* RowsToUpdate one entry for every key of both sides whose rows differ under the
\* row-equality rule, with the source row as NewValues and the target row as
\* OldValues; no key is in two of the lists, and a key with equal rows is in none.
C7_RowClassification ==
    pc = "returned" =>
        LET srcRows == source.tables["users"].rows
            tgtRows == target.tables["users"].rows
            changed == {k \in DOMAIN srcRows \cap DOMAIN tgtRows :
                           ~SameRow(srcRows[k], tgtRows[k])}
            d == out.val
            insertKeys == {d.RowsToInsert[i]["id"].v : i \in DOMAIN d.RowsToInsert}
            updateKeys == {d.RowsToUpdate[i].PrimaryKeyValue : i \in DOMAIN d.RowsToUpdate}
            deleteKeys == {d.RowsToDelete[i]["id"].v : i \in DOMAIN d.RowsToDelete}
        IN  /\ ~out.err
            /\ Lists(d.RowsToInsert, {srcRows[k] : k \in DOMAIN srcRows \ DOMAIN tgtRows})
            /\ Lists(d.RowsToDelete, {tgtRows[k] : k \in DOMAIN tgtRows \ DOMAIN srcRows})
            /\ Lists(d.RowsToUpdate,
                     {[PrimaryKeyValue |-> k,
                       OldValues |-> tgtRows[k],
                       NewValues |-> srcRows[k]] : k \in changed})
            /\ insertKeys \cap updateKeys = {}
            /\ insertKeys \cap deleteKeys = {}
            /\ updateKeys \cap deleteKeys = {}

\* a pass that found a row to insert and a row to update
C7_Witness ==
    /\ pc = "returned"
    /\ ~out.err
    /\ Len(out.val.RowsToInsert) = 1
    /\ Len(out.val.RowsToUpdate) = 1

-----------------------------------------------------------------------------
(* compareColumns on its own: SpecCols.  inp holds the columns of the      *)
(* source table and those of the target table.                             *)

\* a models.Column as getColumns fills it
Column(name, type, nullable, default, autoIncrement, charset, comment) ==
    [Name |-> name, Type |-> type, IsNullable |-> nullable, DefaultValue |-> default,
     IsAutoIncrement |-> autoIncrement, Charset |-> charset, Collation |-> charset,
     Extra |-> IF autoIncrement THEN "auto_increment" ELSE "", Comment |-> comment]

TIntUpper == <<"I", "N", "T">>

\* the column a, and the columns that differ from it in one attribute
ColumnsA ==
    {Column("a", TInt, FALSE, Nil, FALSE, Nil, Ptr("")),
     Column("a", TIntUpper, FALSE, Nil, FALSE, Nil, Ptr("")),
     Column("a", TText, FALSE, Nil, FALSE, Nil, Ptr("")),
     Column("a", TInt, TRUE, Nil, FALSE, Nil, Ptr("")),
     Column("a", TInt, FALSE, Ptr("0"), FALSE, Nil, Ptr("")),
     Column("a", TInt, FALSE, Ptr("1"), FALSE, Nil, Ptr("")),
     Column("a", TInt, FALSE, Nil, TRUE, Nil, Ptr("")),
     Column("a", TInt, FALSE, Nil, FALSE, Ptr("latin1"), Ptr("")),
     Column("a", TInt, FALSE, Nil, FALSE, Nil, Ptr("nick"))}

\* the column lists: a (or none), then b (or none), then c (or none)
ColumnLists ==
    {a \o b \o c :
        a \in {<<>>} \cup {<<x>> : x \in ColumnsA},
        b \in {<<>>, <<Column("b", TText, TRUE, Nil, FALSE, Ptr("utf8mb4"), Ptr(""))>>},
        c \in {<<>>, <<Column("c", TInt, TRUE, Nil, FALSE, Nil, Ptr(""))>>}}

InitCols ==
    /\ inp \in [source : ColumnLists, target : ColumnLists]
    /\ out = <<>>
    /\ pc = "call"
    /\ source = EmptyDB
    /\ target = EmptyDB
    /\ syncDataTables = <<>>
    /\ logLevel = INFO
    /\ diff = Nil
    /\ sqls = <<>>
    /\ results = <<>>
    /\ execLog = <<>>
    /\ loggerLines = <<>>
    /\ verify = NoVerify
    /\ vdiff = Nil
    /\ target0 = target
    /\ injected = 0
    /\ answers = <<>>

\* compareColumns(sourceDef.Columns, targetDef.Columns)
CompareColumns ==
    /\ pc = "call"
    /\ out' = compareColumns(inp.source, inp.target)
    /\ pc' = "returned"
    /\ UNCHANGED <<answers, source, target, syncDataTables, diff, sqls, results, execLog,
                   loggerLines, verify, vdiff, target0, logLevel, injected, inp>>

NextCols == CompareColumns

SpecCols == InitCols /\ [][NextCols]_vars

\* C8: the column comparison.  ColumnsAdded lists the source columns whose name the
\* target lacks, ColumnsDeleted the names of the target columns the source lacks,
\* ColumnsModified one entry for every column of both sides that columnsEqual finds
\* unequal, with the target column as OldColumn and the source column as NewColumn;
\* no column name is in two of the lists.
C8_ColumnClassification ==
    pc = "returned" =>
        LET src == Range(inp.source)
            tgt == Range(inp.target)
            addedNames == {out.added[i].Name : i \in DOMAIN out.added}
            modifiedNames == {out.modifications[i].ColumnName :
                                 i \in DOMAIN out.modifications}
        IN  /\ Lists(out.added, {c \in src : \A t \in tgt : t.Name # c.Name})
            /\ Lists(out.deleted,
                     {t.Name : t \in {x \in tgt : \A c \in src : c.Name # x.Name}})
            /\ Lists(out.modifications,
                     {[ColumnName |-> pair[1].Name,
                       OldColumn |-> pair[2],
                       NewColumn |-> pair[1]] :
                         pair \in {q \in src \X tgt :
                                      q[1].Name = q[2].Name /\ ~columnsEqual(q[1], q[2])}})
            /\ addedNames \cap Range(out.deleted) = {}
            /\ addedNames \cap modifiedNames = {}
            /\ modifiedNames \cap Range(out.deleted) = {}

\* a comparison that found a column added, one deleted and one modified
C8_Witness ==
    /\ pc = "returned"
    /\ out.added # <<>>
    /\ out.deleted # <<>>
    /\ out.modifications # <<>>

\* column equality as it is documented: the normalized type, the nullability, the
\* default value, the auto-increment flag and the comment
SameColumn(col1, col2) ==
    /\ normalizeType(col1.Type) = normalizeType(col2.Type)
    /\ col1.IsNullable = col2.IsNullable
    /\ col1.DefaultValue = col2.DefaultValue
    /\ col1.IsAutoIncrement = col2.IsAutoIncrement
    /\ col1.Comment = col2.Comment

\* C9: a column of both sides is reported as modified exactly when the two columns
\* disagree on the normalized type, the nullability, the default value, the
\* auto-increment flag or the comment (a difference of charset or collation alone
\* is none).
C9_ColumnEquality ==
    pc = "returned" =>
        \A c \in Range(inp.source) : \A t \in Range(inp.target) :
            c.Name = t.Name =>
                ((\E i \in DOMAIN out.modifications :
                      out.modifications[i].ColumnName = c.Name)
                    <=> ~SameColumn(c, t))

-----------------------------------------------------------------------------
(* normalizeType on its own: SpecTypes.  inp describes a column type: its  *)
(* name, its parenthesized group, its modifiers, and the case of the name  *)
(* and of the modifiers.                                                   *)

\* the type names: lower is the name in lower case, upper in upper case
TypeBases ==
    {[lower |-> <<"i", "n", "t">>, upper |-> <<"I", "N", "T">>],
     [lower |-> <<"t", "i", "n", "y", "i", "n", "t">>,
      upper |-> <<"T", "I", "N", "Y", "I", "N", "T">>],
     [lower |-> <<"v", "a", "r", "c", "h", "a", "r">>,
      upper |-> <<"V", "A", "R", "C", "H", "A", "R">>],
     [lower |-> <<"d", "e", "c", "i", "m", "a", "l">>,
      upper |-> <<"D", "E", "C", "I", "M", "A", "L">>]}

TypeGroups ==
    {<<>>, <<"(", "1", ")">>, <<"(", "1", "1", ")">>, <<"(", "1", "0", ",", "2", ")">>}

\* the modifiers: lower and upper as written after the group, normal as they are
\* after normalization
TypeModifiers ==
    {[lower |-> <<>>, upper |-> <<>>, normal |-> <<>>],
     [lower |-> <<" ", "u", "n", "s", "i", "g", "n", "e", "d">>,
      upper |-> <<" ", "U", "N", "S", "I", "G", "N", "E", "D">>,
      normal |-> <<" ", "U", "N", "S", "I", "G", "N", "E", "D">>],
     [lower |-> <<" ", " ", "u", "n", "s", "i", "g", "n", "e", "d", " ">>,
      upper |-> <<" ", " ", "U", "N", "S", "I", "G", "N", "E", "D", " ">>,
      normal |-> <<" ", "U", "N", "S", "I", "G", "N", "E", "D">>]}

\* the text of the type
TypeText(t) ==
    (IF t.baseUpper THEN t.base.upper ELSE t.base.lower)
        \o t.group
        \o (IF t.modifierUpper THEN t.modifier.upper ELSE t.modifier.lower)

InitTypes ==
    /\ inp \in [base : TypeBases, group : TypeGroups, modifier : TypeModifiers,
                baseUpper : BOOLEAN, modifierUpper : BOOLEAN]
    /\ out = <<>>
    /\ pc = "call"
    /\ source = EmptyDB
    /\ target = EmptyDB
    /\ syncDataTables = <<>>
    /\ logLevel = INFO
    /\ diff = Nil
    /\ sqls = <<>>
    /\ results = <<>>
    /\ execLog = <<>>
    /\ loggerLines = <<>>
    /\ verify = NoVerify
    /\ vdiff = Nil
    /\ target0 = target
    /\ injected = 0
    /\ answers = <<>>

\* normalizeType(col.Type)
NormalizeType ==
    /\ pc = "call"
    /\ out' = normalizeType(TypeText(inp))
    /\ pc' = "returned"
    /\ UNCHANGED <<answers, source, target, syncDataTables, diff, sqls, results, execLog,
                   loggerLines, verify, vdiff, target0, logLevel, injected, inp>>

NextTypes == NormalizeType

SpecTypes == InitTypes /\ [][NextTypes]_vars

\* C10: normalizeType returns the type name in upper case followed by the modifiers
\* in upper case with single spaces: the parenthesized group is gone, the text after
\* it is kept, and neither the group nor the case of the letters changes the result.
\* normalizeType("INT(11)") = normalizeType("INT"), and
\* normalizeType("TINYINT(1) UNSIGNED") = "TINYINT UNSIGNED".
C10_NormalizeType ==
    /\ pc = "returned" => out = inp.base.upper \o inp.modifier.normal
    /\ normalizeType(<<"I", "N", "T", "(", "1", "1", ")">>) = normalizeType(<<"I", "N", "T">>)
    /\ normalizeType(<<"T", "I", "N", "Y", "I", "N", "T", "(", "1", ")", " ",
                       "U", "N", "S", "I", "G", "N", "E", "D">>)
          = <<"T", "I", "N", "Y", "I", "N", "T", " ", "U", "N", "S", "I", "G", "N", "E", "D">>

\* a type in lower case with a group and modifiers has been normalized
C10_Witness ==
    /\ pc = "returned"
    /\ ~inp.baseUpper
    /\ inp.group # <<>>
    /\ inp.modifier.normal # <<>>

-----------------------------------------------------------------------------
(* compareViews on its own: SpecViews.  The two databases hold views only: *)
(* v_a with a body of two words, written with different separators, cases *)
(* and leading blanks, and v_b.                                            *)

\* main's variables in a specification of a single function: they are not used
PipelineUnused ==
    /\ logLevel = INFO
    /\ diff = Nil
    /\ sqls = <<>>
    /\ results = <<>>
    /\ execLog = <<>>
    /\ loggerLines = <<>>
    /\ verify = NoVerify
    /\ vdiff = Nil
    /\ target0 = target
    /\ injected = 0
    /\ answers = <<>>

\* what separates the two words of a view body
ViewSeparators ==
    {<<" ">>, <<" ", " ">>, <<"\n">>, <<"\n", " ">>, <<"\t", "\t">>}

ViewBodies ==
    {lead \o word \o sep \o <<digit>> :
        lead \in {<<>>, <<" ">>},
        word \in {<<"s">>, <<"S">>},
        sep \in ViewSeparators,
        digit \in {"1", "2"}}

\* the views of a database: v_a (or none) and v_b (or none)
ViewMaps ==
    {[v \in (IF a = <<>> THEN {} ELSE {"v_a"}) \cup (IF b THEN {"v_b"} ELSE {}) |->
         IF v = "v_a" THEN a[1] ELSE <<"s", " ", "1">>] :
        a \in {<<>>} \cup {<<x>> : x \in ViewBodies},
        b \in BOOLEAN}

InitViews ==
    /\ source \in {[tables |-> <<>>, views |-> m] : m \in ViewMaps}
    /\ target \in {[tables |-> <<>>, views |-> m] : m \in ViewMaps}
    /\ syncDataTables = <<>>
    /\ pc = "call"
    /\ inp = <<>>
    /\ out = <<>>
    /\ PipelineUnused

\* compareViews(), every provider call succeeding
CompareViews ==
    /\ pc = "call"
    /\ out' = compareViews(source, target, NoFail)
    /\ pc' = "returned"
    /\ UNCHANGED <<answers, source, target, syncDataTables, diff, sqls, results, execLog,
                   loggerLines, verify, vdiff, target0, logLevel, injected, inp>>

NextViews == CompareViews

SpecViews == InitViews /\ [][NextViews]_vars

\* the normalization as it is documented: trimmed, every run of spaces, newlines
\* and tabs collapsed to one space, lower case
DocumentedViewNormalization(def) == ToLower(Join(Fields(def), <<" ">>))

\* C11: compareViews returns one CREATE difference for every view name of the
\* source alone, one DROP difference for every view name of the target alone, and
\* one MODIFY difference for every view name of both sides whose definitions differ
\* after normalization (trimmed, every run of spaces, newlines and tabs collapsed to
\* one space, lower case), and nothing else: two bodies that differ in whitespace
\* or letter case only give no difference.
C11_ViewDifferences ==
    pc = "returned" =>
        /\ ~out.err
        /\ Lists([i \in 1..Len(out.val) |-> <<out.val[i].ViewName, out.val[i].Operation>>],
                 {<<v, "CREATE">> : v \in DOMAIN source.views \ DOMAIN target.views}
                 \cup {<<v, "DROP">> : v \in DOMAIN target.views \ DOMAIN source.views}
                 \cup {<<v, "MODIFY">> :
                          v \in {x \in DOMAIN source.views \cap DOMAIN target.views :
                                    DocumentedViewNormalization(source.views[x])
                                        # DocumentedViewNormalization(target.views[x])}})

-----------------------------------------------------------------------------
(* One comparison pass followed by the generation: SpecPass.  The source   *)
(* and the target hold users and logs, each or none; logs comes without a  *)
(* primary key or with one; cfg.SyncDataTables lists users, logs, both, a  *)
(* table that does not exist, or nothing.                                  *)

LogsKeyed == Table(<<colId, colMsg>>, PkIdx, RowsBob)
LogsKeyedOther == Table(<<colId, colMsg, colAge>>, PkIdx, RowsRobAnn)

PassSourceDBs ==
    {[tables |-> TablesOf(u, l), views |-> <<>>] :
        u \in {<<>>} \cup {<<x>> : x \in SourceUsers},
        l \in {<<>>, <<Logs>>, <<LogsKeyed>>}}

PassTargetDBs ==
    {[tables |-> TablesOf(u, l), views |-> <<>>] :
        u \in {<<>>} \cup {<<x>> : x \in TargetUsers},
        l \in {<<>>, <<Logs>>, <<LogsKeyedOther>>}}

PassSyncLists == {<<>>, <<"users">>, <<"logs">>, <<"users", "logs">>, <<"ghost">>}

\* the provider calls that may fail while the statements are generated: inp is the
\* one that does (NoFail for none)
GenerateFailCalls == {Call("source", "GetCreateTableSQL", t) : t \in {"users", "logs"}}

InitPass ==
    /\ source \in PassSourceDBs
    /\ target \in PassTargetDBs
    /\ syncDataTables \in PassSyncLists
    /\ pc = "call"
    /\ inp \in GenerateFailCalls \cup {NoFail}
    /\ out = <<>>
    /\ PipelineUnused

\* comparator.CompareDifferences(cfg.SyncDataTables): out is what it returned
PassCompare ==
    /\ pc = "call"
    /\ \E ord \in Orders :
         LET cmp == CompareDifferences(source, target, syncDataTables, ord, NoFail)
         IN  /\ out' = cmp
             /\ diff' = cmp.val
             /\ pc' = IF cmp.err THEN "failed" ELSE "compared"
    /\ UNCHANGED <<answers, source, target, syncDataTables, sqls, results, execLog, loggerLines,
                   verify, vdiff, target0, logLevel, injected, inp>>

\* sqlGenerator.GenerateSQL(diff): the generator holds no QueryHelper and makes no
\* provider call, and neither generateStructureSQL nor generateDataSQL returns an
\* error, so the call returns the list whatever inp is
PassGenerate ==
    /\ pc = "compared"
    /\ \E tblOrd \in Perms(Range(TableNames)) : sqls' = GenerateSQL(diff[1], tblOrd)
    /\ pc' = "returned"
    /\ UNCHANGED <<answers, source, target, syncDataTables, diff, results, execLog, loggerLines,
                   verify, vdiff, target0, logLevel, injected, inp, out>>

NextPass == PassCompare \/ PassGenerate

SpecPass == InitPass /\ [][NextPass]_vars

\* the entries of StructureDifferences about the table
StructureEntries(d, t) ==
    {i \in DOMAIN d.StructureDifferences : d.StructureDifferences[i].TableName = t}

\* the statements about the table whose kind is one of kinds
StatementsOf(list, t, kinds) ==
    {i \in DOMAIN list : list[i].table = t /\ list[i].kind \in kinds}

\* C12: a table of the source that the target lacks has one StructureDifference,
\* marked IsNewTable, with the source's definition attached and all its columns and
\* indexes as added (and a table of both sides is not marked); GenerateSQL emits
\* exactly one CREATE TABLE statement for the table and no other structural
\* statement about it.
C12_NewTable ==
    /\ pc \in {"compared", "returned"} =>
         \A t \in DOMAIN source.tables :
            LET sourceDef == GetTableDefinition(source, "source", NoFail, t).val
                entries == StructureEntries(diff[1], t)
            IN  /\ Cardinality(entries) = 1
                /\ \A i \in entries :
                     LET d == diff[1].StructureDifferences[i]
                     IN  /\ d.IsNewTable = ~HasTable(target, t)
                         /\ d.IsNewTable =>
                              /\ d.TableDefinition = Ptr(sourceDef)
                              /\ d.ColumnsAdded = sourceDef.Columns
                              /\ d.IndexesAdded = sourceDef.Indexes
                              /\ d.ColumnsDeleted = <<>>
                              /\ d.ColumnsModified = <<>>
                              /\ d.IndexesDeleted = <<>>
    /\ pc = "returned" =>
         \A t \in DOMAIN source.tables \ DOMAIN target.tables :
            /\ Cardinality(StatementsOf(sqls, t, {"CREATE TABLE"})) = 1
            /\ StatementsOf(sqls, t, StructuralKinds \ {"CREATE TABLE"}) = {}

\* statements were generated for a source whose two tables the target lacks
C12_Witness ==
    /\ pc = "returned"
    /\ DOMAIN source.tables = {"users", "logs"}
    /\ DOMAIN target.tables = {}
    /\ Len(sqls) >= 2

\* C13: when the creation text of a new table cannot be obtained from the source,
\* GenerateSQL fails and returns no statement list: a list is returned only if
\* SHOW CREATE TABLE succeeds for every table the difference marks as new.
C13_DefinitionFetchError ==
    pc = "returned" =>
        \A i \in DOMAIN diff[1].StructureDifferences :
            diff[1].StructureDifferences[i].IsNewTable =>
                ~GetCreateTableSQL(source, "source", inp,
                                   diff[1].StructureDifferences[i].TableName).err

\* the tables whose rows the pass is to compare: listed, in the source, with a
\* primary key
DataSyncTables ==
    {t \in DOMAIN source.tables \cap Range(syncDataTables) :
        \E i \in DOMAIN source.tables[t].cols : source.tables[t].cols[i].COLUMN_KEY = "PRI"}

\* the calls that read the rows of the table
RowCalls(t) ==
    {Call(side, op, t) : side \in {"source", "target"},
                         op \in {"GetPrimaryKeyValues", "GetRowByPrimaryKey"}}

\* C14: DataDifferences has an entry for a table exactly when the table is in
\* cfg.SyncDataTables, exists in the source and has a primary key; a pass fails only
\* when there is such a table (a listed table without a primary key is no error);
\* no call that reads rows is made for a table outside the list (the failure of such
\* a call changes nothing), and no INSERT, UPDATE or DELETE is generated for it.
C14_DataSyncTables ==
    /\ pc \in {"compared", "returned"} => DOMAIN diff[1].DataDifferences = DataSyncTables
    /\ pc = "failed" => DataSyncTables # {}
    /\ pc = "call" =>
         \A t \in DOMAIN source.tables \ Range(syncDataTables) :
            \A call \in RowCalls(t) : \A ord \in Orders :
                LET sourceTables == GetTables(source, "source", NoFail).val
                IN  compareTableData(source, target, sourceTables, syncDataTables, ord, call)
                      = compareTableData(source, target, sourceTables, syncDataTables, ord, NoFail)
    /\ pc = "returned" =>
         \A i \in DOMAIN sqls :
            sqls[i].kind \in DataKinds => sqls[i].table \in DataSyncTables

\* the list names logs only, which has no primary key; users is not listed and
\* differs in structure and in rows: statements were generated for its structure
C14_Witness ==
    /\ pc = "returned"
    /\ syncDataTables = <<"logs">>
    /\ DOMAIN source.tables = {"users", "logs"}
    /\ DataSyncTables = {}
    /\ HasTable(target, "users")
    /\ source.tables["users"].rows # target.tables["users"].rows
    /\ StatementsOf(sqls, "users", {"MODIFY COLUMN"}) # {}

-----------------------------------------------------------------------------
(* compareIndexes on its own: SpecIdx.  inp holds the index lists of the   *)
(* source table and of the target table, each in the order of INDEX_NAME.  *)

Index(name, type, columns) == [Name |-> name, Type |-> type, Columns |-> columns]

\* the index lists: idx_name (or none), then PRIMARY (or none)
IndexLists ==
    {a \o b :
        a \in {<<>>,
               <<Index("idx_name", "INDEX", <<"name">>)>>,
               <<Index("idx_name", "INDEX", <<"name", "age">>)>>,
               <<Index("idx_name", "UNIQUE", <<"name">>)>>},
        b \in {<<>>,
               <<Index("PRIMARY", "PRIMARY", <<"id">>)>>,
               <<Index("PRIMARY", "PRIMARY", <<"id", "name">>)>>}}

InitIdx ==
    /\ inp \in [source : IndexLists, target : IndexLists]
    /\ out = <<>>
    /\ pc = "call"
    /\ source = EmptyDB
    /\ target = EmptyDB
    /\ syncDataTables = <<>>
    /\ PipelineUnused

\* compareIndexes(sourceDef.Indexes, targetDef.Indexes)
CompareIndexes ==
    /\ pc = "call"
    /\ \E ord \in Perms(Range(IndexNames)) :
          out' = compareIndexes(inp.source, inp.target, ord)
    /\ pc' = "returned"
    /\ UNCHANGED <<answers, source, target, syncDataTables, diff, sqls, results, execLog,
                   loggerLines, verify, vdiff, target0, logLevel, injected, inp>>

NextIdx == CompareIndexes

SpecIdx == InitIdx /\ [][NextIdx]_vars

-----------------------------------------------------------------------------
(* GenerateSQL on its own: SpecGen.  inp is a SyncDifference of the shape  *)
(* the comparator returns: view differences of v_a and v_b (those of the   *)
(* source loop first), the structure difference of users with up to two    *)
(* entries in each of its lists, the difference of a new table logs, and   *)
(* data differences with up to two rows to insert, to update and to delete.*)

GenViewDifference(name, op) ==
    [ViewName |-> name,
     Operation |-> op,
     OldDefinition |-> IF op = "CREATE" THEN <<>> ELSE VSelect1,
     NewDefinition |-> IF op = "DROP" THEN <<>> ELSE VSelect2]

\* compareViews appends the CREATE and MODIFY differences, then the DROP ones
GenViewLists ==
    {SelectSeq(<<GenViewDifference("v_a", a), GenViewDifference("v_b", b)>>,
               LAMBDA v : v.Operation \in {"CREATE", "MODIFY"})
     \o SelectSeq(<<GenViewDifference("v_a", a), GenViewDifference("v_b", b)>>,
                  LAMBDA v : v.Operation = "DROP") :
        a \in {"none", "CREATE", "MODIFY", "DROP"},
        b \in {"none", "CREATE", "MODIFY", "DROP"}}

GenColumn(name, type) == Column(name, type, TRUE, Nil, FALSE, Nil, Ptr(""))

GenModification ==
    [ColumnName |-> "name",
     OldColumn |-> Column("name", TText, TRUE, Nil, FALSE, Nil, Ptr("")),
     NewColumn |-> Column("name", TVarchar, FALSE, Ptr("x"), FALSE, Ptr("utf8mb4"), Ptr(""))]

GenPrimary == Index("PRIMARY", "PRIMARY", <<"id">>)

\* structure differences of the table users, present on both sides
GenStructureLists ==
    {tableDifference("users",
                     [added |-> added, deleted |-> deleted, modifications |-> modified],
                     [added |-> idxAdded, deleted |-> idxDeleted]) :
        added \in {<<>>, <<GenColumn("age", TInt)>>,
                   <<GenColumn("age", TInt), GenColumn("msg", TText)>>},
        deleted \in {<<>>, <<"old">>, <<"old", "older">>},
        modified \in {<<>>, <<GenModification>>},
        idxAdded \in {<<>>, <<Index("idx_name", "INDEX", <<"name">>)>>,
                      <<GenPrimary, Index("idx_name", "INDEX", <<"name">>)>>},
        idxDeleted \in {<<>>, <<GenPrimary>>, <<Index("idx_old", "INDEX", <<"old">>)>>,
                        <<Index("idx_old", "INDEX", <<"old">>), GenPrimary>>}}

\* compareIndexes puts no index name in both of its lists
GenStructures ==
    {d \in GenStructureLists : Names(d.IndexesAdded) \cap Names(d.IndexesDeleted) = {}}

GenRow(id, name) == [id |-> IntV(id), name |-> StrV(name)]

GenUpdateRow(id) ==
    [PrimaryKeyValue |-> id, OldValues |-> GenRow(id, "Robert"), NewValues |-> GenRow(id, "Bob")]

\* the data differences of a table with the primary key id
GenData(tableName) ==
    {[TableName |-> tableName,
      PrimaryKeyName |-> "id",
      RowsToInsert |-> ins,
      RowsToUpdate |-> upd,
      RowsToDelete |-> del] :
        ins \in {<<>>, <<GenRow(1, "Bob")>>, <<GenRow(2, "Ann"), GenRow(1, "Bob")>>},
        upd \in {<<>>, <<GenUpdateRow(3)>>, <<GenUpdateRow(4), GenUpdateRow(3)>>},
        del \in {<<>>, <<GenRow(5, "Eve")>>, <<GenRow(5, "Eve"), GenRow(6, "Dan")>>}}

GenNewLogs ==
    newTableDifference("logs", GetTableDefinition([tables |-> [logs |-> LogsKeyed],
                                                   views |-> <<>>],
                                                  "source", NoFail, "logs").val)

GenNoChange ==
    tableDifference("users", [added |-> <<>>, deleted |-> <<>>, modifications |-> <<>>],
                    [added |-> <<>>, deleted |-> <<>>])

GenDifferences ==
    {[StructureDifferences |-> <<>>, DataDifferences |-> <<>>, ViewDifferences |-> v] :
        v \in GenViewLists}
    \cup {[StructureDifferences |-> <<s>>, DataDifferences |-> <<>>,
           ViewDifferences |-> <<>>] : s \in GenStructures}
    \cup {[StructureDifferences |-> <<GenNoChange>>, DataDifferences |-> [users |-> d],
           ViewDifferences |-> <<>>] : d \in GenData("users")}
    \cup {[StructureDifferences |-> <<GenNewLogs, s>>,
           DataDifferences |-> [users |-> d, logs |-> l],
           ViewDifferences |-> v] :
            v \in GenViewLists,
            s \in {x \in GenStructures : Len(x.ColumnsAdded) = 2 /\ Len(x.IndexesDeleted) = 2},
            d \in {x \in GenData("users") : Len(x.RowsToUpdate) = 1 /\ Len(x.RowsToDelete) = 1},
            l \in {x \in GenData("logs") : Len(x.RowsToInsert) = 1 /\ Len(x.RowsToUpdate) = 0}}

InitGen ==
    /\ inp \in GenDifferences
    /\ out = <<>>
    /\ pc = "call"
    /\ source = EmptyDB
    /\ target = EmptyDB
    /\ syncDataTables = <<>>
    /\ PipelineUnused

\* sqlGen.GenerateSQL(diff): out is the list it returns
GenerateCall ==
    /\ pc = "call"
    /\ \E tblOrd \in Perms(Range(TableNames)) : out' = GenerateSQL(inp, tblOrd)
    /\ pc' = "returned"
    /\ UNCHANGED <<answers, source, target, syncDataTables, diff, sqls, results, execLog,
                   loggerLines, verify, vdiff, target0, logLevel, injected, inp>>

NextGen == GenerateCall

SpecGen == InitGen /\ [][NextGen]_vars

\* C17: for every ViewDifference GenerateSQL emits, about that view: for DROP one
\* DROP VIEW and no CREATE VIEW; for CREATE one CREATE VIEW, with the new
\* definition, and no DROP VIEW; for MODIFY one DROP VIEW and one CREATE VIEW, with
\* the new definition, the DROP VIEW before the CREATE VIEW.  No other view
\* statement is emitted.
C17_ViewStatements ==
    pc = "returned" =>
        /\ \A k \in DOMAIN inp.ViewDifferences :
              LET v == inp.ViewDifferences[k]
                  drops == StatementsOf(out, v.ViewName, {"DROP VIEW"})
                  creates == StatementsOf(out, v.ViewName, {"CREATE VIEW"})
              IN  /\ Cardinality(drops) = IF v.Operation \in {"DROP", "MODIFY"} THEN 1 ELSE 0
                  /\ Cardinality(creates) = IF v.Operation \in {"CREATE", "MODIFY"} THEN 1 ELSE 0
                  /\ \A i \in creates : out[i].body = v.NewDefinition
                  /\ \A i \in drops : \A j \in creates : i < j
        /\ \A i \in DOMAIN out :
              out[i].kind \in {"DROP VIEW", "CREATE VIEW"} =>
                  \E k \in DOMAIN inp.ViewDifferences :
                      inp.ViewDifferences[k].ViewName = out[i].table

\* statements were generated for a modified view v_a and a dropped view v_b, with
\* statements about tables as well
C17_Witness ==
    /\ pc = "returned"
    /\ \E k \in DOMAIN inp.ViewDifferences :
          inp.ViewDifferences[k].ViewName = "v_a" /\ inp.ViewDifferences[k].Operation = "MODIFY"
    /\ \E k \in DOMAIN inp.ViewDifferences :
          inp.ViewDifferences[k].ViewName = "v_b" /\ inp.ViewDifferences[k].Operation = "DROP"
    /\ inp.StructureDifferences # <<>>

\* the statements of the list about the table whose kind is one of kinds, in the
\* order of the list
StatementSeq(list, t, kinds) ==
    SelectSeq(list, LAMBDA x : x.table = t /\ x.kind \in kinds)

\* C18: for a table of both sides the structural statements are, in this order: one
\* ADD COLUMN for every added column, one DROP COLUMN for every deleted column, one
\* MODIFY COLUMN for every modified column, defined from the new (source) column,
\* one statement for every deleted index (DROP PRIMARY KEY for the primary key,
\* DROP INDEX with the name for another) and one for every added index; each group
\* in the order of its list.
C18_StructureStatements ==
    pc = "returned" =>
        \A k \in DOMAIN inp.StructureDifferences :
            LET d == inp.StructureDifferences[k]
                stm == StatementSeq(out, d.TableName, StructuralKinds)
                a == Len(d.ColumnsAdded)
                b == a + Len(d.ColumnsDeleted)
                c == b + Len(d.ColumnsModified)
                e == c + Len(d.IndexesDeleted)
                f == e + Len(d.IndexesAdded)
            IN  ~d.IsNewTable =>
                  /\ Len(stm) = f
                  /\ \A i \in 1..a :
                        /\ stm[i].kind = "ADD COLUMN"
                        /\ stm[i].body.Name = d.ColumnsAdded[i].Name
                        /\ stm[i].body.Type = d.ColumnsAdded[i].Type
                  /\ \A i \in (a + 1)..b :
                        /\ stm[i].kind = "DROP COLUMN"
                        /\ stm[i].body = d.ColumnsDeleted[i - a]
                  /\ \A i \in (b + 1)..c :
                        LET new == d.ColumnsModified[i - b].NewColumn
                        IN  /\ stm[i].kind = "MODIFY COLUMN"
                            /\ stm[i].body.Name = new.Name
                            /\ stm[i].body.Type = new.Type
                            /\ stm[i].body.NotNull = ~new.IsNullable
                            /\ (stm[i].body.Default = Nil) = (new.DefaultValue = Nil)
                  /\ \A i \in (c + 1)..e :
                        LET idx == d.IndexesDeleted[i - c]
                        IN  IF idx.Type = "PRIMARY"
                            THEN stm[i].kind = "DROP PRIMARY KEY"
                            ELSE stm[i].kind = "DROP INDEX" /\ stm[i].body = idx.Name
                  /\ \A i \in (e + 1)..f :
                        LET idx == d.IndexesAdded[i - e]
                        IN  /\ stm[i].kind = IF idx.Type = "PRIMARY" THEN "ADD PRIMARY KEY"
                                             ELSE IF idx.Type = "UNIQUE" THEN "ADD UNIQUE KEY"
                                             ELSE "ADD INDEX"
                            /\ stm[i].body.name = idx.Name
                            /\ stm[i].body.cols = idx.Columns

\* statements were generated for a table with two added and two deleted columns, a
\* modified column, the primary key and another index deleted, an index added
C18_Witness ==
    /\ pc = "returned"
    /\ \E k \in DOMAIN inp.StructureDifferences :
          LET d == inp.StructureDifferences[k]
          IN  /\ ~d.IsNewTable
              /\ Len(d.ColumnsAdded) = 2
              /\ Len(d.ColumnsDeleted) = 2
              /\ Len(d.ColumnsModified) = 1
              /\ Len(d.IndexesDeleted) = 2
              /\ Len(d.IndexesAdded) = 1

\* the literal of a row value of the inputs: a number bare, a text quoted
LiteralOf(val) ==
    IF val.t = "int" THEN [q |-> FALSE, s |-> ToString(val.v)] ELSE [q |-> TRUE, s |-> val.v]

ExampleRowsToUpdate ==
    classifyRows("users", "id", <<3>>, <<3>>,
                 [k \in {3} |-> Ok(GenRow(3, "Bob"))],
                 [k \in {3} |-> Ok(GenRow(3, "Robert"))]).val.RowsToUpdate

\* C20: the i-th UPDATE about a table assigns every column of the new (source) row
\* of the i-th UpdateRow but the primary-key column, each to its value in that row,
\* and filters by the primary-key column being equal to the UpdateRow's
\* PrimaryKeyValue.  For the source row {id: 3, name: "Bob"} and the target row
\* {id: 3, name: "Robert"} there is one UpdateRow, with the key 3, and its statement
\* sets name alone, to 'Bob', where id = 3.
C20_UpdateStatement ==
    /\ pc = "returned" =>
         \A t \in DOMAIN inp.DataDifferences :
            LET d == inp.DataDifferences[t]
                stm == StatementSeq(out, t, {"UPDATE"})
            IN  /\ Len(stm) = Len(d.RowsToUpdate)
                /\ \A i \in DOMAIN stm :
                      LET u == d.RowsToUpdate[i]
                      IN  /\ DOMAIN stm[i].body.set = DOMAIN u.NewValues \ {d.PrimaryKeyName}
                          /\ \A col \in DOMAIN stm[i].body.set :
                                stm[i].body.set[col] = LiteralOf(u.NewValues[col])
                          /\ stm[i].body.pkColumn = d.PrimaryKeyName
                          /\ stm[i].body.pk = LiteralOf(IntV(u.PrimaryKeyValue))
    /\ Len(ExampleRowsToUpdate) = 1
    /\ ExampleRowsToUpdate[1].PrimaryKeyValue = 3
    /\ generateUpdateSQL("users", "id", ExampleRowsToUpdate[1]).body
         = [set |-> [col \in {"name"} |-> [q |-> TRUE, s |-> "Bob"]],
            pkColumn |-> "id",
            pk |-> [q |-> FALSE, s |-> "3"]]

\* UPDATE statements were generated for two rows of a table
C20_Witness ==
    /\ pc = "returned"
    /\ \E t \in DOMAIN inp.DataDifferences :
          /\ Len(inp.DataDifferences[t].RowsToUpdate) = 2
          /\ Len(StatementSeq(out, t, {"UPDATE"})) = 2

-----------------------------------------------------------------------------
(* escapeValue on its own: SpecEsc.  inp is the value to embed: nil, a     *)
(* string, an int, a bool, or a value of another type, which is given by   *)
(* its rendering under %v.  Strings and renderings are sequences of        *)
(* one-character strings over a letter, the single quote and the backslash.*)

\* strings and renderings have at most this many characters
MaxValueLen == 3

EscChars == {"a", "'", "\\"}

RECURSIVE TextsUpTo(_)
TextsUpTo(n) ==
    IF n = 0 THEN {<<>>}
    ELSE LET shorter == TextsUpTo(n - 1)
         IN  shorter \cup {Append(t, c) : t \in shorter, c \in EscChars}

\* the decimal digits of a natural number
RECURSIVE Digits(_)
Digits(n) ==
    IF n < 10 THEN <<ToString(n)>> ELSE Append(Digits(n \div 10), ToString(n % 10))

\* fmt.Sprintf("%v", v) of an int
SprintInt(n) == IF n < 0 THEN <<"-">> \o Digits(0 - n) ELSE Digits(n)

\* escapeValue, the text it returns character by character
escapeValueText(val) ==
    CASE val.t = "nil" -> <<"N", "U", "L", "L">>
      [] val.t = "str" ->
            <<"'">> \o ReplaceAll(ReplaceAll(val.v, <<"\\">>, <<"\\", "\\">>),
                                  <<"'">>, <<"\\", "'">>) \o <<"'">>
      [] val.t = "int" -> SprintInt(val.v)
      [] val.t = "bool" -> (IF val.v THEN <<"1">> ELSE <<"0">>)
      [] OTHER -> <<"'">> \o ReplaceAll(val.v, <<"'">>, <<"\\", "'">>) \o <<"'">>

EscValues ==
    {[t |-> "nil", v |-> <<>>]}
    \cup {[t |-> "str", v |-> x] : x \in TextsUpTo(MaxValueLen)}
    \cup {[t |-> "int", v |-> n] : n \in {-12, -1, 0, 7, 10, 305}}
    \cup {[t |-> "bool", v |-> b] : b \in BOOLEAN}
    \cup {[t |-> "other", v |-> x] : x \in TextsUpTo(MaxValueLen)}

InitEsc ==
    /\ source = [tables |-> <<>>, views |-> <<>>]
    /\ target = source
    /\ syncDataTables = <<>>
    /\ pc = "call"
    /\ inp \in EscValues
    /\ out = <<>>
    /\ PipelineUnused

EscapeValue ==
    /\ pc = "call"
    /\ out' = escapeValueText(inp)
    /\ pc' = "returned"
    /\ UNCHANGED <<answers, source, target, syncDataTables, diff, sqls, results, execLog,
                   loggerLines, verify, vdiff, target0, logLevel, injected, inp>>

NextEsc == EscapeValue

SpecEsc == InitEsc /\ [][NextEsc]_vars

\* where the quoted literal that opens before position i ends: the position of
\* its closing quote, 0 when it is not closed.  A backslash takes the next
\* character with it, two quotes in a row stand for one quote.
RECURSIVE LiteralEnd(_, _)
LiteralEnd(s, i) ==
    IF i > Len(s) THEN 0
    ELSE IF s[i] = "\\" THEN LiteralEnd(s, i + 2)
    ELSE IF s[i] = "'"
         THEN IF i < Len(s) /\ s[i + 1] = "'" THEN LiteralEnd(s, i + 2) ELSE i
    ELSE LiteralEnd(s, i + 1)

\* a quoted literal: it opens with a quote and closes at its last character
QuotedLiteral(s) == Len(s) >= 2 /\ s[1] = "'" /\ LiteralEnd(s, 2) = Len(s)

\* a token without a quote and without a backslash
UnquotedToken(s) == s # <<>> /\ \A i \in 1..Len(s) : s[i] \notin {"'", "\\"}

\* the text with a backslash before every backslash and every quote
RECURSIVE BackslashEscaped(_)
BackslashEscaped(s) ==
    IF s = <<>> THEN <<>>
    ELSE (IF Head(s) \in {"'", "\\"} THEN <<"\\", Head(s)>> ELSE <<Head(s)>>)
         \o BackslashEscaped(Tail(s))

\* the text with a backslash before every quote
RECURSIVE QuoteEscaped(_)
QuoteEscaped(s) ==
    IF s = <<>> THEN <<>>
    ELSE (IF Head(s) = "'" THEN <<"\\", "'">> ELSE <<Head(s)>>)
         \o QuoteEscaped(Tail(s))

-----------------------------------------------------------------------------
(* GetSummary and GetFailedResults on their own: SpecSum.  inp is a result *)
(* list as ExecuteSQL builds it, one result per statement.                 *)

\* the result lists have at most this many results
MaxResults == 3

SummaryStatements == {Stmt("DROP VIEW", "v_a", <<>>), Stmt("DROP VIEW", "v_b", <<>>)}

RECURSIVE ResultListsUpTo(_)
ResultListsUpTo(n) ==
    IF n = 0 THEN {<<>>}
    ELSE LET shorter == ResultListsUpTo(n - 1)
         IN  shorter \cup {Append(rs, executeSingleSQL(sql, ok)) :
                              rs \in shorter, sql \in SummaryStatements, ok \in BOOLEAN}

InitSum ==
    /\ source = [tables |-> <<>>, views |-> <<>>]
    /\ target = source
    /\ syncDataTables = <<>>
    /\ pc = "call"
    /\ inp \in ResultListsUpTo(MaxResults)
    /\ out = <<>>
    /\ PipelineUnused

\* sync.GetSummary(results) and sync.GetFailedResults(results)
Summarize ==
    /\ pc = "call"
    /\ out' = [summary |-> GetSummary(inp), failed |-> GetFailedResults(inp)]
    /\ pc' = "returned"
    /\ UNCHANGED <<answers, source, target, syncDataTables, diff, sqls, results, execLog,
                   loggerLines, verify, vdiff, target0, logLevel, injected, inp>>

NextSum == Summarize

SpecSum == InitSum /\ [][NextSum]_vars

\* the positions of the results of a list that report a failure
FailedPositions(rs) == {i \in 1..Len(rs) : ~rs[i].Success}

\* the k-th smallest member of a set of numbers
Kth(S, k) == CHOOSE i \in S : Cardinality({j \in S : j < i}) = k - 1

\* C22: GetSummary returns total = number of results, succeeded = number of
\* results with Success true, failed = number with Success false, so that
\* succeeded + failed = total; GetFailedResults returns exactly the results with
\* Success false in their original order; results [ok, fail, ok] give (3, 2, 1)
\* and one failed result.
C22_Summary ==
    pc = "returned" =>
        /\ out.summary.total = Len(inp)
        /\ out.summary.success = Cardinality({i \in 1..Len(inp) : inp[i].Success})
        /\ out.summary.failed = Cardinality(FailedPositions(inp))
        /\ out.summary.success + out.summary.failed = out.summary.total
        /\ Len(out.failed) = Cardinality(FailedPositions(inp))
        /\ \A k \in 1..Len(out.failed) : out.failed[k] = inp[Kth(FailedPositions(inp), k)]
        /\ [i \in 1..Len(inp) |-> inp[i].Success] = <<TRUE, FALSE, TRUE>>
              => /\ out.summary = [total |-> 3, success |-> 2, failed |-> 1]
                 /\ out.failed = <<inp[2]>>

\* results [ok, fail, ok] with two different statements have been summarized
C22_Witness ==
    /\ pc = "returned"
    /\ [i \in 1..Len(inp) |-> inp[i].Success] = <<TRUE, FALSE, TRUE>>
    /\ inp[1].SQL # inp[2].SQL
    /\ out.summary = [total |-> 3, success |-> 2, failed |-> 1]
    /\ Len(out.failed) = 1

-----------------------------------------------------------------------------
(* Config.Validate on its own: SpecCfg.  inp is the configuration as       *)
(* yaml.Unmarshal left it; out holds the error and the configuration       *)
(* after the call (Validate writes to its receiver).                       *)

DefaultPort == 3306
DefaultCharset == "utf8mb4"

DatabaseConfig(host, port, username, password, database, charset) ==
    [Host |-> host, Port |-> port, Username |-> username, Password |-> password,
     Database |-> database, Charset |-> charset]

DatabaseConfigs ==
    {DatabaseConfig(host, port, username, "pass", database, charset) :
        host \in {"", "localhost"},
        port \in {0, DefaultPort, DefaultPort + 1},
        username \in {"", "root"},
        database \in {"", "db"},
        charset \in {"", DefaultCharset, "latin1"}}

\* Validate, were the target configuration left unchecked
ValidateTargetUnchecked(c) ==
    IF c.Source.Host = "" \/ c.Source.Database = ""
    THEN [err |-> TRUE, cfg |-> c]
    ELSE [err |-> FALSE,
          cfg |-> [c EXCEPT
                     !.Source.Port = IF @ = 0 THEN DefaultPort ELSE @,
                     !.Target.Port = IF @ = 0 THEN DefaultPort ELSE @,
                     !.Source.Charset = IF @ = "" THEN DefaultCharset ELSE @,
                     !.Target.Charset = IF @ = "" THEN DefaultCharset ELSE @]]

Validate(c) ==
    IF c.Source.Host = "" \/ c.Source.Database = ""
    THEN [err |-> TRUE, cfg |-> c]
    ELSE IF c.Target.Host = "" \/ c.Target.Database = ""
    THEN [err |-> TRUE, cfg |-> c]
    ELSE [err |-> FALSE,
          cfg |-> [c EXCEPT
                     !.Source.Port = IF @ = 0 THEN DefaultPort ELSE @,
                     !.Target.Port = IF @ = 0 THEN DefaultPort ELSE @,
                     !.Source.Charset = IF @ = "" THEN DefaultCharset ELSE @,
                     !.Target.Charset = IF @ = "" THEN DefaultCharset ELSE @]]

InitCfg ==
    /\ source = [tables |-> <<>>, views |-> <<>>]
    /\ target = source
    /\ syncDataTables = <<>>
    /\ pc = "call"
    /\ inp \in [Source : DatabaseConfigs, Target : DatabaseConfigs,
                SyncDataTables : {<<>>, <<"users">>},
                Logging : {[Level |-> "INFO", File |-> "sync.log"]}]
    /\ out = <<>>
    /\ PipelineUnused

ValidateCall ==
    /\ pc = "call"
    /\ out' = Validate(inp)
    /\ pc' = "returned"
    /\ UNCHANGED <<answers, source, target, syncDataTables, diff, sqls, results, execLog,
                   loggerLines, verify, vdiff, target0, logLevel, injected, inp>>

NextCfg == ValidateCall

SpecCfg == InitCfg /\ [][NextCfg]_vars

-----------------------------------------------------------------------------
(* More properties of the pipeline, checked under Spec *)

\* C23: ExecuteSQL emits exactly one log line for every statement it executes,
\* whether the statement succeeded or failed, for every configured log level:
\* at every point of the loop the logger holds as many lines as statements
\* have been executed.
C23_OneLogLinePerStatement == Len(loggerLines) = Len(execLog)

\* the run ended before the execution: nothing was found to sync, the user
\* declined, or the comparison failed
EndedBeforeExecution ==
    \/ pc \in {"nodiff", "cancelled"}
    \/ pc = "exit1" /\ diff = Nil

\* C25: no statement is executed against the target unless the comparison
\* succeeded and reported differences, the statements were generated, and the
\* user accepted both confirmations; when the comparison finds no difference,
\* when a confirmation is declined, or when the comparison fails, the run ends
\* with the target as it was and without a verification.
C25_GatedExecution ==
    /\ (execLog # <<>> \/ target # target0) =>
          /\ diff # Nil
          /\ HasDifferences(diff[1])
          /\ answers = <<TRUE, TRUE>>
          /\ Len(execLog) <= Len(sqls)
          /\ \A i \in DOMAIN execLog : execLog[i].sql = sqls[i]
    /\ (diff # Nil /\ ~HasDifferences(diff[1])) => pc = "nodiff"
    /\ (\E i \in DOMAIN answers : ~answers[i]) => pc = "cancelled"
    /\ EndedBeforeExecution =>
          /\ target = target0
          /\ execLog = <<>>
          /\ results = <<>>
          /\ verify = NoVerify
          /\ vdiff = Nil

\* the user accepted the sync and declined the execution of a list of statements
C25_Witness ==
    /\ pc = "cancelled"
    /\ answers = <<TRUE, FALSE>>
    /\ Len(sqls) > 0
    /\ execLog = <<>>
    /\ target = target0

\* some statement of the run failed
SomeFailed == \E i \in DOMAIN results : ~results[i].Success

\* VerifySync has returned
Verified == pc \in {"done", "exit1"} /\ verify # NoVerify

\* the target still lacks something of the source: a table, a column or an
\* index of a table, a view or its definition, or, in a table of
\* cfg.SyncDataTables, a row
ResidualDifference ==
    \/ \E t \in DOMAIN source.tables : t \notin DOMAIN target.tables
    \/ \E t \in DOMAIN source.tables \cap DOMAIN target.tables :
          \/ source.tables[t].cols # target.tables[t].cols
          \/ DOMAIN source.tables[t].idxs # DOMAIN target.tables[t].idxs
    \/ DOMAIN source.views # DOMAIN target.views
    \/ \E v \in DOMAIN source.views \cap DOMAIN target.views :
          DocumentedViewNormalization(source.views[v])
              # DocumentedViewNormalization(target.views[v])
    \/ \E i \in DOMAIN syncDataTables :
          LET t == syncDataTables[i]
          IN  /\ t \in DOMAIN source.tables \cap DOMAIN target.tables
              /\ "PRIMARY" \in DOMAIN source.tables[t].idxs
              /\ source.tables[t].rows # target.tables[t].rows

\* C26: once the execution has started the pipeline reaches the verification:
\* VerifySync is run after ExecuteSQL returns, once, whether no statement, some
\* statements or all statements failed, and a run in which a statement failed
\* and left a residual difference ends with the verification reporting
\* passed = false.
C26_ReachesVerification ==
    /\ [](pc = "execute" => <>Verified)
    /\ [][(verify' # verify \/ vdiff' # vdiff)
            => (pc = "verify" /\ Len(results) = Len(sqls) /\ verify = NoVerify)]_vars
    /\ []((Verified /\ SomeFailed /\ ResidualDifference) => ~verify.passed)

\* a run ended in which a statement failed, another succeeded, a difference
\* stayed and the verification reported passed = false
C26_Witness ==
    /\ pc = "done"
    /\ SomeFailed
    /\ \E i \in DOMAIN results : results[i].Success
    /\ ResidualDifference
    /\ ~verify.passed

\* C27: when the source and the target are identical (the same tables with
\* equal columns and indexes, the same views, equal rows), CompareDifferences
\* returns a difference without entries: no structure difference for a table
\* without column or index changes, no data difference for a table without row
\* changes, HasDifferences() false, and main reports that nothing needs syncing.
C27_IdenticalNoDifference ==
    (diff # Nil /\ source = target0) =>
        /\ diff[1].StructureDifferences = <<>>
        /\ DOMAIN diff[1].DataDifferences = {}
        /\ diff[1].ViewDifferences = <<>>
        /\ ~HasDifferences(diff[1])
        /\ pc = "nodiff"

\* C30: across every run the source database is never modified; the
\* comparator, the statement generator and the verifier leave both databases
\* and the Difference they were given as they are; the target database changes
\* only through the statements the executor runs.
C30_Frame ==
    /\ [][/\ source' = source
          /\ target' # target =>
                /\ pc = "execute"
                /\ Len(results) < Len(sqls)
                /\ execLog' = Append(execLog, [sql |-> sqls[Len(results) + 1], ok |-> TRUE])
                /\ target' = Apply(target, sqls[Len(results) + 1])
          /\ pc \in {"compare", "generate", "verify"} => target' = target
          /\ diff # Nil => diff' = diff]_vars
    /\ [](target = Replay(target0, execLog))

\* a run ended that changed the target and whose verification found a
\* difference of its own, the one of the comparison being kept
C30_Witness ==
    /\ pc = "done"
    /\ target # target0
    /\ diff # Nil
    /\ vdiff # Nil
    /\ vdiff # diff

-----------------------------------------------------------------------------
(* More properties of a comparison pass, checked under SpecPass *)

\* the tables of cfg.SyncDataTables that the source holds with a primary key and
\* the target lacks
NewDataSyncTables ==
    {t \in Range(syncDataTables) \cap (DOMAIN source.tables \ DOMAIN target.tables) :
        HasPrimaryKey(GetTableDefinition(source, "source", NoFail, t).val)}

\* C28: CompareDifferences succeeds when a table of the data-sync list exists
\* with a primary key in the source and not in the target: the table is reported
\* as a new table and all its source rows are rows to insert.
C28_NewTableRows ==
    (pc # "call" /\ NewDataSyncTables # {}) =>
        /\ ~out.err
        /\ \A t \in NewDataSyncTables :
              /\ \A i \in StructureEntries(diff[1], t) :
                    diff[1].StructureDifferences[i].IsNewTable
              /\ t \in DOMAIN diff[1].DataDifferences
              /\ LET d == diff[1].DataDifferences[t]
                 IN  /\ Range(d.RowsToInsert) = Range(source.tables[t].rows)
                     /\ Len(d.RowsToInsert) = Len(source.tables[t].rows)
                     /\ d.RowsToUpdate = <<>>
                     /\ d.RowsToDelete = <<>>

-----------------------------------------------------------------------------
(* A comparison pass over a data-sync table followed by the generation:     *)
(* SpecUpd.  Both sides hold the table users with the primary key id, with  *)
(* or without the column name; cfg.SyncDataTables lists it.                 *)

InitUpd ==
    /\ source \in {DataDB(cols, f) :
                      cols \in {<<colId>>, <<colId, colName>>}, f \in Contents}
    /\ target \in {DataDB(cols, f) :
                      cols \in {<<colId>>, <<colId, colName>>}, f \in Contents}
    /\ syncDataTables = <<"users">>
    /\ pc = "call"
    /\ inp = NoFail
    /\ out = <<>>
    /\ PipelineUnused

SpecUpd == InitUpd /\ [][NextPass]_vars

\* C29: every UPDATE statement generated from a Difference of the comparator
\* has a non-empty assignment list: no UpdateRow is produced whose new row
\* holds the primary-key column only, also when the target row has more
\* columns than the source row.
C29_UpdateAssignments ==
    /\ pc \in {"compared", "returned"} =>
          \A t \in DOMAIN diff[1].DataDifferences :
             LET d == diff[1].DataDifferences[t]
             IN  \A i \in DOMAIN d.RowsToUpdate :
                    DOMAIN d.RowsToUpdate[i].NewValues # {d.PrimaryKeyName}
    /\ pc = "returned" =>
          \A i \in DOMAIN sqls :
             sqls[i].kind = "UPDATE" => DOMAIN sqls[i].body.set # {}

====
